---- MODULE Spec2Model ----
(***************************************************************************)
(* Client-side job lifecycle of the Firecrawl Python SDK (firecrawl.py):   *)
(* the synchronous transport with 502 retry, and the wait-to-completion    *)
(* pollers of FirecrawlApp and AsyncFirecrawlApp (crawl, batch scrape,     *)
(* extract) with their page-chain walk.                                    *)
(*                                                                         *)
(* The remote service is the environment: every HTTP answer is chosen      *)
(* nondeterministically from a bounded set.  A JSON object (a Python dict) *)
(* is a record with a field "keys" holding the keys that are present; the  *)
(* value fields of absent keys hold a fixed filler that no operator reads. *)
(* Times are in seconds for the pollers and in milliseconds for the        *)
(* transport backoff (0.5 s = 500 ms).                                     *)
(***************************************************************************)
EXTENDS Integers, Sequences, FiniteSets, TLC

VARIABLES
    op,            \* the operation that was called ("idle" before the call)
    pc,            \* position inside the operation
    arg_interval,  \* poll_interval as passed by the caller
    poll_interval, \* the local variable poll_interval
    status_data,   \* the dict the poller currently holds (status_data / response)
    data,          \* the local list `data` (accumulated documents)
    data_bound,    \* whether the local name `data` has been assigned
    normalized,    \* the documents of `data` handed to scrape_formats_response_transform, in call order
    queries,       \* number of status queries issued (GET of the status URL)
    fetches,       \* number of next-page fetches issued
    sleeps,        \* the arguments of the sleep calls made, in order
    pages,         \* history: the answers received since the last status query, that one first
    result,        \* how the operation ended: returned value or raised error
    t_retries,     \* transport: argument retries
    t_backoff,     \* transport: argument backoff_factor, in milliseconds
    t_attempt,     \* transport: loop variable attempt
    t_log,         \* transport: responses received, in order
    t_sleeps,      \* transport: arguments of time.sleep, in milliseconds
    t_result,      \* transport: how the call ended
    t_data,        \* transport: argument data, the JSON body (its timeout key)
    t_timeouts,    \* transport: the timeout handed to the HTTP library with each request
    entry,         \* the public operation that led into the poller ("" for a direct call)
    posts,         \* number of submission POSTs issued
    args,          \* which of urls, prompt, schema the caller passed (truthy)
    job_id,        \* the id a submitting operation handed to its poller ("" before it did)
    w_url,         \* watcher: self.ws_url, as the sequence of its parts
    w_conn,        \* watcher: the arguments of the websockets.connect call made
    w_status,      \* watcher: self.status
    w_data,        \* watcher: self.data
    w_handlers,    \* watcher: self.event_handlers, the handlers of each event type in list order
    w_msgs,        \* watcher: history of the messages read from the socket, in order
    w_pending,     \* watcher: dispatch_event calls the current message still has to make
    w_events,      \* watcher: history of the dispatch_event calls made, in order
    suspended      \* the locals of a second call on the same instance, while the first one runs

vars == << op, pc, arg_interval, poll_interval, status_data, data, data_bound, normalized,
           queries, fetches, sleeps, pages, result,
           t_retries, t_backoff, t_attempt, t_log, t_sleeps, t_result,
           t_data, t_timeouts,
           entry, posts, args, job_id,
           w_url, w_conn, w_status, w_data, w_handlers, w_msgs, w_pending, w_events,
           suspended >>

pollVars == << arg_interval, poll_interval, status_data, data, data_bound, normalized,
               queries, fetches, sleeps, pages, result >>

transportVars == << t_retries, t_backoff, t_attempt, t_log, t_sleeps, t_result,
                    t_data, t_timeouts >>

frontVars == << entry, posts, args, job_id >>

watchVars == << w_url, w_conn, w_status, w_data, w_handlers, w_msgs, w_pending, w_events >>

pairVars == << suspended >>

(***************************************************************************)
(* Bounds of the model.                                                    *)
(***************************************************************************)
MaxQueries == 3    \* status queries one wait may issue before the model stops it
MaxPages == 3      \* length of the longest page chain the service serves
MaxDocs == 2       \* documents on one page
MaxPoll == 3       \* largest poll_interval a caller passes
MaxRetries == 3    \* largest `retries` a caller passes to the transport
MaxMessages == 3   \* messages one watcher reads from its socket
MaxCatchup == 3    \* documents embedded in one catchup message
MaxListeners == 2  \* handlers registered on one watcher

(***************************************************************************)
(* Python values.                                                          *)
(***************************************************************************)
NoneInt == 0          \* None in a numeric field (dict.get of an absent key)
NoneStr == "None"     \* None in a string field, as an f-string prints it

Max(a, b) == IF a >= b THEN a ELSE b

Range(s) == { s[i] : i \in 1..Len(s) }

\* Mutant of Extend: the new page's documents replace the accumulated ones.
Extend_Replaces(list, more) == more

\* list.extend: the argument's items are appended, in order.
Extend(list, more) == list \o more

(***************************************************************************)
(* Job statuses.                                                           *)
(***************************************************************************)
\* The statuses on which the crawl monitors sleep and query again.
InProgress == {"active", "paused", "pending", "queued", "waiting", "scraping"}

\* The statuses on which the extract loops raise.
ExtractFailed == {"failed", "cancelled"}

\* The statuses the service may report; "stalled" stands for any unrecognized string.
Statuses == InProgress \cup {"completed", "failed", "cancelled", "stalled"}

(***************************************************************************)
(* JSON bodies.                                                            *)
(***************************************************************************)
NoBody == [keys |-> {}, status |-> "", data |-> << >>, next |-> 0, error |-> "",
           total |-> NoneInt, completed |-> NoneInt,
           creditsUsed |-> NoneInt, expiresAt |-> NoneInt, success |-> FALSE,
           details |-> ""]

\* A body that is sent as JSON and is not: response.json() raises
\* JSONDecodeError on it where it raises ContentTypeError (aiohttp) on a body
\* of another content type.
Garbled == [NoBody EXCEPT !.keys = {"text"}]

\* The JSON error body of a non-200 answer.
ErrBody == [NoBody EXCEPT !.keys = {"error"}, !.error = "boom"]

\* Page p of a job: status s, documents first..first+n-1 when the page has a
\* data key, a next key that is absent ("absent"), empty ("falsy") or the URL
\* of page p+1 ("url"), and scalar fields stamped with p.
PageBody(p, s, hasData, n, nextKind, hasError, first) ==
    [keys |-> {"status", "total", "completed", "creditsUsed", "expiresAt"}
                \cup (IF hasData THEN {"data"} ELSE {})
                \cup (IF nextKind # "absent" THEN {"next"} ELSE {})
                \cup (IF hasError THEN {"error"} ELSE {}),
     status |-> s,
     data |-> IF hasData THEN [i \in 1..n |-> first + i - 1] ELSE << >>,
     next |-> IF nextKind = "url" THEN p + 1 ELSE 0,
     error |-> IF hasError THEN "boom" ELSE "",
     total |-> p, completed |-> p, creditsUsed |-> p, expiresAt |-> p,
     success |-> FALSE, details |-> ""]

NextKinds(p) == IF p < MaxPages THEN {"absent", "falsy", "url"} ELSE {"absent", "falsy"}

\* The bodies the service may send for page p; only a failed or cancelled job
\* may carry an error key.
PageBodies(p, statuses, first) ==
    UNION { { PageBody(p, s, hd, n, nk, he, first) :
                hd \in BOOLEAN, n \in 0..MaxDocs, nk \in NextKinds(p),
                he \in (IF s \in {"failed", "cancelled"} THEN BOOLEAN ELSE {FALSE}) } :
            s \in statuses }

\* The bodies sent with a success code other than 200: a job still running
\* and a finished one-page job.
OtherSuccessBodies ==
    { PageBody(1, "scraping", FALSE, 0, "absent", FALSE, 1),
      PageBody(1, "completed", TRUE, 1, "absent", FALSE, 1) }

\* dict.get(key) and dict[key] on the modelled keys.
Has(d, k) == k \in d.keys
GetStatus(d) == IF Has(d, "status") THEN d.status ELSE NoneStr
GetData(d) == IF Has(d, "data") THEN d.data ELSE << >>
GetNext(d) == IF Has(d, "next") THEN d.next ELSE 0
GetScalar(d, k, v) == IF Has(d, k) THEN v ELSE NoneInt

(***************************************************************************)
(* HTTP answers: status code, whether the body parses as JSON, the body.   *)
(***************************************************************************)
ErrCodes == {404, 502}

\* A success code other than 200: `response.status_code == 200` rejects it,
\* `response.status >= 300` does not.
OtherSuccessCodes == {202}

Answer(c, j, b) == [code |-> c, json |-> j, body |-> b]

\* What the service may answer to a GET of the status URL.
StatusAnswers ==
    { Answer(200, TRUE, b) : b \in PageBodies(1, Statuses, 1) }
      \cup { Answer(c, TRUE, ErrBody) : c \in ErrCodes }
      \cup { Answer(c, FALSE, NoBody) : c \in ErrCodes \cup {200} }
      \cup { Answer(200, FALSE, Garbled) }
      \cup { Answer(c, TRUE, b) : c \in OtherSuccessCodes, b \in OtherSuccessBodies }

\* What the service may answer to a GET of the URL of page p.
PageAnswers(p, first) ==
    { Answer(200, TRUE, b) : b \in PageBodies(p, {"completed", "scraping"}, first) }
      \cup { Answer(c, TRUE, ErrBody) : c \in ErrCodes }
      \cup { Answer(c, FALSE, NoBody) : c \in ErrCodes \cup {200} }
      \cup { Answer(200, FALSE, Garbled) }

(***************************************************************************)
(* Outcomes.                                                               *)
(***************************************************************************)
NoResult == [outcome |-> "none", exc |-> "", msg |-> << >>, value |-> NoBody]
Returned(v) == [outcome |-> "returned", exc |-> "", msg |-> << >>, value |-> v]
Raised(e, m) == [outcome |-> "raised", exc |-> e, msg |-> m, value |-> NoBody]

\* FirecrawlApp._get_error_message: the message as the sequence of the
\* f-string's parts; the 403 branch assigns and falls off the end (None).
GetErrorMessage(status_code, action, error_message, error_details) ==
    IF status_code = 402 THEN
        << "Payment Required: Failed to ", action, ". ", error_message, " - ", error_details >>
    ELSE IF status_code = 403 THEN
        << NoneStr >>
    ELSE IF status_code = 408 THEN
        << "Request Timeout: Failed to ", action, " as the request timed out. ",
           error_message, " - ", error_details >>
    ELSE IF status_code = 409 THEN
        << "Conflict: Failed to ", action, " due to a conflict. ",
           error_message, " - ", error_details >>
    ELSE IF status_code = 500 THEN
        << "Internal Server Error: Failed to ", action, ". ",
           error_message, " - ", error_details >>
    ELSE
        << "Unexpected error during ", action, ": Status code ", ToString(status_code),
           ". ", error_message, " - ", error_details >>

\* FirecrawlApp._handle_error on a requests.Response: always raises HTTPError.
HandleError(a, action) ==
    IF ~a.json THEN
        Raised("HTTPError",
               << "Failed to parse Firecrawl error response as JSON. Status code: ",
                  ToString(a.code) >>)
    ELSE
        Raised("HTTPError",
               GetErrorMessage(a.code, action,
                   IF Has(a.body, "error") THEN a.body.error
                                           ELSE "No error message provided.",
                   IF Has(a.body, "details") THEN a.body.details
                                             ELSE "No additional error details provided."))

ParseFailure == Raised("Exception", << "Failed to parse Firecrawl response as JSON." >>)

(***************************************************************************)
(* Initial state: nothing has been called.                                 *)
(***************************************************************************)
NoResponse == [code |-> 0, serial |-> 0]

PollIdle ==
    /\ arg_interval = 0
    /\ poll_interval = 0
    /\ status_data = NoBody
    /\ data = << >>
    /\ data_bound = FALSE
    /\ normalized = << >>
    /\ queries = 0
    /\ fetches = 0
    /\ sleeps = << >>
    /\ pages = << >>
    /\ result = NoResult

\* A request body without a timeout key (also: no body at all).
NoData == [keys |-> {}, timeout |-> 0]

TransportIdle ==
    /\ t_retries = 0
    /\ t_backoff = 0
    /\ t_attempt = 0
    /\ t_log = << >>
    /\ t_sleeps = << >>
    /\ t_result = [outcome |-> "none", response |-> NoResponse]
    /\ t_data = NoData
    /\ t_timeouts = << >>

\* No urls, prompt or schema: the arguments of an operation that takes none.
NoArgs == [urls |-> FALSE, prompt |-> FALSE, schema |-> FALSE]

FrontIdle ==
    /\ entry = ""
    /\ posts = 0
    /\ args = NoArgs
    /\ job_id = ""

\* The three event types of CrawlWatcher.event_handlers.
EventTypes == {"done", "error", "document"}

\* No websockets.connect call has been made.
NoConnection == [url |-> << >>, auth |-> << >>]

WatchIdle ==
    /\ w_url = << >>
    /\ w_conn = NoConnection
    /\ w_status = ""
    /\ w_data = << >>
    /\ w_handlers = [t \in EventTypes |-> << >>]
    /\ w_msgs = << >>
    /\ w_pending = << >>
    /\ w_events = << >>

\* The locals of a call that has not been made yet.
IdleFrame ==
    [op |-> "idle", pc |-> "idle", arg_interval |-> 0, poll_interval |-> 0,
     status_data |-> NoBody, data |-> << >>, data_bound |-> FALSE, normalized |-> << >>,
     queries |-> 0, fetches |-> 0, sleeps |-> << >>, pages |-> << >>, result |-> NoResult]

Init ==
    /\ op = "idle"
    /\ pc = "idle"
    /\ PollIdle
    /\ TransportIdle
    /\ FrontIdle
    /\ WatchIdle
    /\ suspended = IdleFrame

(***************************************************************************)
(* Sync transport: _get_request, _post_request, _delete_request.           *)
(***************************************************************************)
TransportOps == {"_get_request", "_post_request", "_delete_request"}

TransportCodes == {200, 404, 500, 502}

BackoffFactors == {250, 500}    \* backoff_factor in ms; 500 is the default 0.5 s

\* `if response.status_code == 502`
ShouldRetry(code) == code = 502

\* Mutant of BackoffDelay: `*` for `**`, a linear backoff.
BackoffDelay_Linear(backoff_factor, attempt) == backoff_factor * (2 * attempt)

\* `backoff_factor * (2 ** attempt)`
BackoffDelay(backoff_factor, attempt) == backoff_factor * (2 ^ attempt)

\* The timeouts, in milliseconds, a caller puts into a request body.
BodyTimeouts == {0, 30000}

\* The request bodies: without a timeout key, or with one.
RequestBodies == {NoData} \cup { [keys |-> {"timeout"}, timeout |-> t] : t \in BodyTimeouts }

\* The bodies a transport operation can be given: only _post_request takes one.
BodiesOf(m) == IF m = "_post_request" THEN RequestBodies ELSE {NoData}

\* timeout=None
Unset == -1

\* `timeout=((data["timeout"] + 5000) if "timeout" in data else None)` in
\* _post_request; _get_request and _delete_request pass no timeout.
RequestTimeout(d) == IF "timeout" \in d.keys THEN d.timeout + 5000 ELSE Unset

\* `session.request(method=method, url=url, headers=headers, json=data)`:
\* no timeout is passed, whatever the body holds.
AsyncRequestTimeout(d) == Unset

\* The call: `for attempt in range(retries)` starts; with retries = 0 the body
\* never runs and `return response` reads an unassigned local.
Transport_Call(m, r, b, d) ==
    /\ op = "idle"
    /\ op' = m
    /\ t_data' = d
    /\ UNCHANGED t_timeouts
    /\ t_retries' = r
    /\ t_backoff' = b
    /\ t_attempt' = 0
    /\ IF r = 0
         THEN /\ pc' = "done"
              /\ t_result' = [outcome |-> "raised", response |-> NoResponse]
         ELSE /\ pc' = "attempt"
              /\ UNCHANGED t_result
    /\ UNCHANGED << t_log, t_sleeps >>
    /\ UNCHANGED << pollVars, frontVars, watchVars, pairVars >>

\* Mutant of AfterLoop: the exhausted loop raises instead of returning.
AfterLoop_Raises(response) == [outcome |-> "raised", response |-> response]

\* The trailing `return response` after the loop: the last response, a 502.
AfterLoop(response) == [outcome |-> "returned", response |-> response]

\* One iteration of the loop: the request, then the sleep on 502 or the
\* return; after the last iteration the trailing `return response`.
Transport_Attempt(c) ==
    /\ op \in TransportOps
    /\ pc = "attempt"
    /\ t_timeouts' = Append(t_timeouts, RequestTimeout(t_data))
    /\ LET response == [code |-> c, serial |-> Len(t_log) + 1] IN
       /\ t_log' = Append(t_log, response)
       /\ IF ShouldRetry(c)
            THEN /\ t_sleeps' = Append(t_sleeps, BackoffDelay(t_backoff, t_attempt))
                 /\ t_attempt' = t_attempt + 1
                 /\ IF t_attempt + 1 < t_retries
                      THEN /\ pc' = "attempt"
                           /\ UNCHANGED t_result
                      ELSE /\ pc' = "done"
                           /\ t_result' = AfterLoop(response)
            ELSE /\ pc' = "done"
                 /\ t_result' = [outcome |-> "returned", response |-> response]
                 /\ UNCHANGED << t_sleeps, t_attempt >>
    /\ UNCHANGED << op, t_retries, t_backoff, t_data >>
    /\ UNCHANGED << pollVars, frontVars, watchVars, pairVars >>

(***************************************************************************)
(* Async transport: AsyncFirecrawlApp._async_request.  The outcome field   *)
(* of t_result names what the call raised when it did not return.          *)
(***************************************************************************)
\* What `await response.json()` does with a 2xx body: it parses, or raises
\* aiohttp.ContentTypeError (a ClientError), or raises json.JSONDecodeError.
JsonOutcomes == {"parsed", "ContentTypeError", "JSONDecodeError"}

\* `if response.status == 502`
AsyncShouldRetry(code) == code = 502

\* `if response.status >= 300: await self._handle_error(...)`, which always
\* raises aiohttp.ClientError.
AsyncIsError(code) == code >= 300

\* `backoff_factor * (2 ** attempt)`, in both sleeps of the loop.
AsyncBackoffDelay(backoff_factor, attempt) == backoff_factor * (2 ^ attempt)

\* `if attempt == retries - 1: raise e` in the handler of aiohttp.ClientError.
AsyncLastAttempt(attempt, retries) == attempt = retries - 1

\* `raise Exception("Max retries exceeded")` after the loop.
AsyncAfterLoop(response) == [outcome |-> "Max retries exceeded", response |-> response]

\* The call: with retries = 0 the loop body never runs and the raise after
\* the loop is reached at once.
AsyncTransport_Call(r, b, d) ==
    /\ op = "idle"
    /\ op' = "_async_request"
    /\ t_data' = d
    /\ UNCHANGED t_timeouts
    /\ t_retries' = r
    /\ t_backoff' = b
    /\ t_attempt' = 0
    /\ IF r = 0
         THEN /\ pc' = "done"
              /\ t_result' = AsyncAfterLoop(NoResponse)
         ELSE /\ pc' = "attempt"
              /\ UNCHANGED t_result
    /\ UNCHANGED << t_log, t_sleeps >>
    /\ UNCHANGED << pollVars, frontVars, watchVars, pairVars >>

\* The loop goes to its next iteration, or falls out of the `for`.
AsyncTransport_Continue(response) ==
    /\ t_sleeps' = Append(t_sleeps, AsyncBackoffDelay(t_backoff, t_attempt))
    /\ t_attempt' = t_attempt + 1
    /\ IF t_attempt + 1 < t_retries
         THEN /\ pc' = "attempt"
              /\ UNCHANGED t_result
         ELSE /\ pc' = "done"
              /\ t_result' = AsyncAfterLoop(response)

\* One iteration of the loop.  A 502 sleeps and continues.  A ClientError
\* raised inside the `try` (by _handle_error on a status >= 300, or by
\* response.json() as ContentTypeError) is caught: it is re-raised on the
\* last attempt and otherwise followed by a sleep and the next iteration.
AsyncTransport_Attempt(c, j) ==
    /\ op = "_async_request"
    /\ pc = "attempt"
    /\ t_timeouts' = Append(t_timeouts, AsyncRequestTimeout(t_data))
    /\ LET response == [code |-> c, serial |-> Len(t_log) + 1] IN
       /\ t_log' = Append(t_log, response)
       /\ IF AsyncShouldRetry(c) THEN
             AsyncTransport_Continue(response)
          ELSE IF AsyncIsError(c) \/ j = "ContentTypeError" THEN
             IF AsyncLastAttempt(t_attempt, t_retries)
               THEN /\ pc' = "done"
                    /\ t_result' = [outcome |-> "ClientError", response |-> response]
                    /\ UNCHANGED << t_sleeps, t_attempt >>
               ELSE /\ t_sleeps' = Append(t_sleeps, AsyncBackoffDelay(t_backoff, t_attempt))
                    /\ t_attempt' = t_attempt + 1
                    /\ pc' = "attempt"
                    /\ UNCHANGED t_result
          ELSE IF j = "JSONDecodeError" THEN
             /\ pc' = "done"
             /\ t_result' = [outcome |-> "JSONDecodeError", response |-> response]
             /\ UNCHANGED << t_sleeps, t_attempt >>
          ELSE
             /\ pc' = "done"
             /\ t_result' = [outcome |-> "returned", response |-> response]
             /\ UNCHANGED << t_sleeps, t_attempt >>
    /\ UNCHANGED << op, t_retries, t_backoff, t_data >>
    /\ UNCHANGED << pollVars, frontVars, watchVars, pairVars >>

(***************************************************************************)
(* FirecrawlApp._handle_error, called on its own with a response of any    *)
(* error status.                                                           *)
(***************************************************************************)
\* The status codes _get_error_message has a branch for, and one it has not.
TranslatedCodes == {402, 403, 408, 409, 500, 404}

\* The JSON body of an error response: with or without `error` and `details`.
ErrorBody(ks) ==
    [NoBody EXCEPT !.keys = ks,
                   !.error = IF "error" \in ks THEN "boom" ELSE "",
                   !.details = IF "details" \in ks THEN "quota" ELSE ""]

\* The operations whose failed request is translated here, and the `action`
\* each passes: `self._handle_error(response, 'scrape URL')` in scrape_url,
\* `self._handle_error(response, 'search')` in search.
ActionOf(o) == IF o = "scrape_url" THEN "scrape URL" ELSE "search"

\* The call: the response is read and the error is raised.
HandleError_Call(o, c, j, ks) ==
    /\ op = "idle"
    /\ op' = "_handle_error"
    /\ entry' = o
    /\ pages' = << Answer(c, j, IF j THEN ErrorBody(ks) ELSE NoBody) >>
    /\ pc' = "done"
    /\ result' = HandleError(Answer(c, j, IF j THEN ErrorBody(ks) ELSE NoBody), ActionOf(o))
    /\ UNCHANGED << arg_interval, poll_interval, status_data, data, data_bound, normalized,
                    queries, fetches, sleeps >>
    /\ UNCHANGED << posts, args, job_id >>
    /\ UNCHANGED << transportVars, watchVars, pairVars >>

(***************************************************************************)
(* Helpers of the pollers.                                                 *)
(***************************************************************************)
RECURSIVE ConcatData(_)
\* The documents of the parsed bodies of a sequence of answers, in order.
ConcatData(as) ==
    IF as = << >> THEN << >>
    ELSE (IF as[1].json THEN GetData(as[1].body) ELSE << >>) \o ConcatData(Tail(as))

\* The id the service gives the first document of the next page it serves.
FirstId == Len(ConcatData(pages)) + 1

\* The end of an operation.
Finish(r) ==
    /\ pc' = "done"
    /\ result' = r

\* The kwargs of CrawlStatusResponse(**status_data) after `status_data['data'] = data`.
WithData(sd, d) == [sd EXCEPT !.keys = @ \cup {"data"}, !.data = d]

\* The dict `response = {'status': status_data.get('status'), ...}` of the
\* status checks; credits_used and expires_at are held in creditsUsed and expiresAt.
StatusDict(sd, d) ==
    [keys |-> {"status", "total", "completed", "creditsUsed", "expiresAt",
               "data", "next", "error"},
     status |-> GetStatus(sd),
     total |-> GetScalar(sd, "total", sd.total),
     completed |-> GetScalar(sd, "completed", sd.completed),
     creditsUsed |-> GetScalar(sd, "creditsUsed", sd.creditsUsed),
     expiresAt |-> GetScalar(sd, "expiresAt", sd.expiresAt),
     data |-> d,
     next |-> GetNext(sd),
     error |-> IF Has(sd, "error") THEN sd.error ELSE NoneStr,
     success |-> FALSE, details |-> ""]

\* Mutant of WalkStep: an empty document list does not end the walk.
WalkStep_IgnoresEmpty(sd, checksUrl) ==
    IF ~Has(sd, "next") THEN "exit"
    ELSE IF ~Has(sd, "data") THEN "nodata"
    ELSE IF checksUrl /\ sd.next = 0 THEN "exit"
    ELSE IF sd.next = 0 THEN "badurl"
    ELSE "fetch"

\* What the page-chain loops do with the dict they hold, before any fetch:
\* `while 'next' in status_data` / `if len(status_data['data']) == 0: break` /
\* (where the code has it) `if not next_url: break`.
WalkStep(sd, checksUrl) ==
    IF ~Has(sd, "next") THEN "exit"
    ELSE IF ~Has(sd, "data") THEN "nodata"
    ELSE IF Len(sd.data) = 0 THEN "exit"
    ELSE IF checksUrl /\ sd.next = 0 THEN "exit"
    ELSE IF sd.next = 0 THEN "badurl"
    ELSE "fetch"

(***************************************************************************)
(* The call of a poller.                                                   *)
(***************************************************************************)
\* Operations taking poll_interval, and those that do not.
IntervalOps == {"_monitor_job_status", "_async_monitor_job_status",
                "check_batch_scrape_status", "async_check_batch_scrape_status"}
FixedOps == {"check_crawl_status", "AsyncFirecrawlApp.check_crawl_status"}

Call(o, pi) ==
    /\ op = "idle"
    /\ op' = o
    /\ pc' = "query"
    /\ arg_interval' = pi
    /\ poll_interval' = pi
    /\ UNCHANGED << status_data, data, data_bound, normalized, queries, fetches, sleeps, pages, result >>
    /\ UNCHANGED << transportVars, frontVars, watchVars, pairVars >>

(***************************************************************************)
(* FirecrawlApp._monitor_job_status                                        *)
(***************************************************************************)
\* Mutant of MonitorInterval: the floor of 2 seconds is dropped.
MonitorInterval_NoFloor(pi) == pi

\* `poll_interval=max(poll_interval,2)`
MonitorInterval(pi) == Max(pi, 2)

\* Mutant of IsInProgress: 'paused' is missing from the list.
IsInProgress_WithoutPaused(s) == s \in InProgress \ {"paused"}

\* `status_data['status'] in [...]`
IsInProgress(s) == s \in InProgress

JobFailed(prefix, s) == Raised("Exception", << prefix, s >>)

\* Mutant of KeepsWaiting: the monitor gives up after its second query.
KeepsWaiting_TwoQueries(n) == n < 2

\* `while True:` around the status query: whether the loop goes on after the
\* n-th query found the job in progress.
KeepsWaiting(n) == TRUE

\* What a loop that gave up would raise.
GaveUp == Raised("TimeoutError", << "job did not complete" >>)

\* One pass of `while True`: the status query and the branch on its answer.
Monitor_Query ==
    /\ op = "_monitor_job_status"
    /\ pc = "query"
    /\ queries < MaxQueries
    /\ \E a \in StatusAnswers :
        /\ queries' = queries + 1
        /\ pages' = << a >>
        /\ IF a.code # 200 THEN
              /\ Finish(HandleError(a, "check crawl status"))
              /\ UNCHANGED << status_data, data, data_bound, normalized, poll_interval, sleeps >>
           ELSE IF ~a.json THEN
              /\ Finish(ParseFailure)
              /\ UNCHANGED << status_data, data, data_bound, normalized, poll_interval, sleeps >>
           ELSE IF a.body.status = "completed" THEN
              /\ status_data' = a.body
              /\ IF Has(a.body, "data")
                   THEN /\ data' = a.body.data
                        /\ data_bound' = TRUE
                        /\ normalized' = << >>
                        /\ pc' = "paginate"
                        /\ UNCHANGED result
                   ELSE /\ Finish(Raised("Exception",
                                   << "Crawl job completed but no data was returned" >>))
                        /\ UNCHANGED << data, data_bound, normalized >>
              /\ UNCHANGED << poll_interval, sleeps >>
           ELSE IF IsInProgress(a.body.status) THEN
              /\ status_data' = a.body
              /\ poll_interval' = MonitorInterval(poll_interval)
              /\ sleeps' = Append(sleeps, MonitorInterval(poll_interval))
              /\ IF KeepsWaiting(queries + 1) THEN UNCHANGED << pc, result >>
                                              ELSE Finish(GaveUp)
              /\ UNCHANGED << data, data_bound, normalized >>
           ELSE
              /\ status_data' = a.body
              /\ Finish(JobFailed("Crawl job failed or was stopped. Status: ", a.body.status))
              /\ UNCHANGED << data, data_bound, normalized, poll_interval, sleeps >>
    /\ UNCHANGED << op, arg_interval, fetches >>
    /\ UNCHANGED << transportVars, frontVars, watchVars, pairVars >>

\* One pass of `while 'next' in status_data` that gets past the break: the
\* response is parsed whatever its status code.
Monitor_NextPage ==
    /\ op = "_monitor_job_status"
    /\ pc = "paginate"
    /\ WalkStep(status_data, FALSE) \in {"fetch", "badurl", "nodata"}
    /\ IF WalkStep(status_data, FALSE) = "nodata" THEN
          /\ Finish(Raised("KeyError", << "'data'" >>))
          /\ UNCHANGED << status_data, data, fetches, pages >>
       ELSE IF WalkStep(status_data, FALSE) = "badurl" THEN
          /\ Finish(Raised("MissingSchema", << "Invalid URL" >>))
          /\ UNCHANGED << status_data, data, fetches, pages >>
       ELSE \E a \in PageAnswers(status_data.next, FirstId) :
          /\ fetches' = fetches + 1
          /\ pages' = Append(pages, a)
          /\ IF ~a.json
               THEN /\ Finish(ParseFailure)
                    /\ UNCHANGED << status_data, data >>
               ELSE /\ status_data' = a.body
                    /\ data' = Extend(data, GetData(a.body))
                    /\ UNCHANGED << pc, result >>
    /\ UNCHANGED << op, arg_interval, poll_interval, data_bound, normalized, queries, sleeps >>
    /\ UNCHANGED << transportVars, frontVars, watchVars, pairVars >>

\* The loop ends: `status_data['data'] = data; return CrawlStatusResponse(**status_data)`.
Monitor_Return ==
    /\ op = "_monitor_job_status"
    /\ pc = "paginate"
    /\ WalkStep(status_data, FALSE) = "exit"
    /\ Finish(Returned(WithData(status_data, data)))
    /\ UNCHANGED << op, arg_interval, poll_interval, status_data, data, data_bound, normalized,
                    queries, fetches, sleeps, pages >>
    /\ UNCHANGED << transportVars, frontVars, watchVars, pairVars >>

(***************************************************************************)
(* AsyncFirecrawlApp._async_request as the pollers see it: the answer on   *)
(* which the transport stopped either yields the parsed body or raises.    *)
(***************************************************************************)
AsyncRequest(a, action) ==
    IF a.code = 502 THEN Raised("Exception", << "Max retries exceeded" >>)
    ELSE IF a.code >= 300 THEN
        IF a.json
          THEN Raised("ClientError",
                      GetErrorMessage(a.code, action,
                          IF Has(a.body, "error") THEN a.body.error
                                                  ELSE "No error message provided.",
                          IF Has(a.body, "details") THEN a.body.details
                                                    ELSE "No additional error details provided."))
          ELSE Raised("ClientError",
                      << "Failed to parse Firecrawl error response as JSON. Status code: ",
                         ToString(a.code) >>)
    ELSE IF ~a.json THEN
        IF a.body = Garbled
          THEN Raised("JSONDecodeError", << "Expecting value" >>)
          ELSE Raised("ContentTypeError", << "Attempt to decode JSON" >>)
    ELSE Returned(a.body)

(***************************************************************************)
(* AsyncFirecrawlApp._async_monitor_job_status                             *)
(***************************************************************************)
\* `max(poll_interval, 2)`
AsyncMonitorInterval(pi) == Max(pi, 2)

AsyncMonitor_Query ==
    /\ op = "_async_monitor_job_status"
    /\ pc = "query"
    /\ queries < MaxQueries
    /\ \E a \in StatusAnswers :
        LET r == AsyncRequest(a, "make GET request") IN
        /\ queries' = queries + 1
        /\ pages' = << a >>
        /\ IF r.outcome = "raised" THEN
              /\ Finish(r)
              /\ UNCHANGED << status_data, data, data_bound, normalized, sleeps >>
           ELSE IF GetStatus(r.value) = "completed" THEN
              /\ status_data' = r.value
              /\ IF Has(r.value, "data")
                   THEN /\ data' = r.value.data
                        /\ data_bound' = TRUE
                        /\ normalized' = << >>
                        /\ pc' = "paginate"
                        /\ UNCHANGED result
                   ELSE /\ Finish(Raised("Exception",
                                   << "Job completed but no data was returned" >>))
                        /\ UNCHANGED << data, data_bound, normalized >>
              /\ UNCHANGED sleeps
           ELSE IF IsInProgress(GetStatus(r.value)) THEN
              /\ status_data' = r.value
              /\ sleeps' = Append(sleeps, AsyncMonitorInterval(poll_interval))
              /\ IF KeepsWaiting(queries + 1) THEN UNCHANGED << pc, result >>
                                              ELSE Finish(GaveUp)
              /\ UNCHANGED << data, data_bound, normalized >>
           ELSE
              /\ status_data' = r.value
              /\ Finish(JobFailed("Job failed or was stopped. Status: ", r.value.status))
              /\ UNCHANGED << data, data_bound, normalized, sleeps >>
    /\ UNCHANGED << op, arg_interval, poll_interval, fetches >>
    /\ UNCHANGED << transportVars, frontVars, watchVars, pairVars >>

\* One pass of the page loop that gets past the breaks; a failed fetch raises
\* out of the monitor.
AsyncMonitor_NextPage ==
    /\ op = "_async_monitor_job_status"
    /\ pc = "paginate"
    /\ WalkStep(status_data, TRUE) \in {"fetch", "nodata"}
    /\ IF WalkStep(status_data, TRUE) = "nodata" THEN
          /\ Finish(Raised("KeyError", << "'data'" >>))
          /\ UNCHANGED << status_data, data, fetches, pages >>
       ELSE \E a \in PageAnswers(status_data.next, FirstId) :
          LET r == AsyncRequest(a, "make GET request") IN
          /\ fetches' = fetches + 1
          /\ pages' = Append(pages, a)
          /\ IF r.outcome = "raised"
               THEN /\ Finish(r)
                    /\ UNCHANGED << status_data, data >>
               ELSE /\ data' = Extend(data, GetData(r.value))
                    /\ status_data' = r.value
                    /\ UNCHANGED << pc, result >>
    /\ UNCHANGED << op, arg_interval, poll_interval, data_bound, normalized, queries, sleeps >>
    /\ UNCHANGED << transportVars, frontVars, watchVars, pairVars >>

AsyncMonitor_Return ==
    /\ op = "_async_monitor_job_status"
    /\ pc = "paginate"
    /\ WalkStep(status_data, TRUE) = "exit"
    /\ Finish(Returned(WithData(status_data, data)))
    /\ UNCHANGED << op, arg_interval, poll_interval, status_data, data, data_bound, normalized,
                    queries, fetches, sleeps, pages >>
    /\ UNCHANGED << transportVars, frontVars, watchVars, pairVars >>


(***************************************************************************)
(* The page loop shared, line for line, by FirecrawlApp.check_crawl_status *)
(* and FirecrawlApp.check_batch_scrape_status.                             *)
(***************************************************************************)
\* Mutant of PageFetchOk: the status code of the page fetch is not checked.
PageFetchOk_AnyCode(a) == TRUE

\* `if status_response.status_code != 200: ... break` lets only 200 through.
PageFetchOk(a) == a.code = 200

\* One pass of the loop that reaches the fetch: a non-200 answer or an
\* unparseable body is logged and ends the loop; nothing is raised.
SyncStatus_NextPage(o) ==
    /\ op = o
    /\ pc = "paginate"
    /\ WalkStep(status_data, TRUE) \in {"fetch", "nodata"}
    /\ IF WalkStep(status_data, TRUE) = "nodata" THEN
          /\ Finish(Raised("KeyError", << "'data'" >>))
          /\ UNCHANGED << status_data, data, fetches, pages >>
       ELSE \E a \in PageAnswers(status_data.next, FirstId) :
          /\ fetches' = fetches + 1
          /\ pages' = Append(pages, a)
          /\ UNCHANGED result
          /\ IF PageFetchOk(a) /\ a.json
               THEN /\ data' = Extend(data, GetData(a.body))
                    /\ status_data' = a.body
                    /\ UNCHANGED pc
               ELSE /\ pc' = "build"
                    /\ UNCHANGED << status_data, data >>
    /\ UNCHANGED << op, arg_interval, poll_interval, data_bound, normalized, queries, sleeps >>
    /\ UNCHANGED << transportVars, frontVars, watchVars, pairVars >>

\* `for document in data: scrape_formats_response_transform(document)`
Normalize(seen, docs) == seen \o docs

\* Of the two operations that share the page loop, only
\* check_batch_scrape_status has that `for` after it, inside
\* `if 'data' in status_data:`.
NormalizesDocs(o) == o = "check_batch_scrape_status"

\* After the loop: the response dict is built from the dict held last and
\* the local `data`, which is unassigned when no branch bound it.
SyncStatus_Return(o) ==
    /\ op = o
    /\ \/ pc = "build"
       \/ pc = "paginate" /\ WalkStep(status_data, TRUE) = "exit"
    /\ normalized' = IF NormalizesDocs(o) /\ data_bound
                       THEN Normalize(normalized, data)
                       ELSE normalized
    /\ IF data_bound
         THEN Finish(Returned(StatusDict(status_data, data)))
         ELSE Finish(Raised("UnboundLocalError", << "data" >>))
    /\ UNCHANGED << op, arg_interval, poll_interval, status_data, data, data_bound,
                    queries, fetches, sleeps, pages >>
    /\ UNCHANGED << transportVars, frontVars, watchVars, pairVars >>

(***************************************************************************)
(* FirecrawlApp.check_crawl_status                                         *)
(***************************************************************************)
CheckCrawlStatus_Query ==
    /\ op = "check_crawl_status"
    /\ pc = "query"
    /\ \E a \in StatusAnswers :
        /\ queries' = queries + 1
        /\ pages' = << a >>
        /\ IF a.code # 200 THEN
              /\ Finish(HandleError(a, "check crawl status"))
              /\ UNCHANGED << status_data, data, data_bound, normalized >>
           ELSE IF ~a.json THEN
              /\ Finish(ParseFailure)
              /\ UNCHANGED << status_data, data, data_bound, normalized >>
           ELSE
              /\ status_data' = a.body
              /\ UNCHANGED result
              /\ IF a.body.status = "completed" /\ Has(a.body, "data")
                   THEN /\ data' = a.body.data
                        /\ data_bound' = TRUE
                        /\ normalized' = << >>
                        /\ pc' = "paginate"
                   ELSE /\ pc' = "build"
                        /\ UNCHANGED << data, data_bound, normalized >>
    /\ UNCHANGED << op, arg_interval, poll_interval, fetches, sleeps >>
    /\ UNCHANGED << transportVars, frontVars, watchVars, pairVars >>

CheckCrawlStatus_NextPage == SyncStatus_NextPage("check_crawl_status")

CheckCrawlStatus_Return == SyncStatus_Return("check_crawl_status")

(***************************************************************************)
(* AsyncFirecrawlApp.check_crawl_status                                    *)
(***************************************************************************)
\* The kwargs of `CrawlStatusResponse(status=..., ..., data=data, success=...)`
\* with `error` and `next` assigned afterwards when the body has them.
AsyncStatusResponse(sd, d) ==
    [keys |-> {"status", "total", "completed", "creditsUsed", "expiresAt", "data", "success"}
                \cup (IF Has(sd, "error") THEN {"error"} ELSE {})
                \cup (IF Has(sd, "next") THEN {"next"} ELSE {}),
     status |-> GetStatus(sd),
     total |-> GetScalar(sd, "total", sd.total),
     completed |-> GetScalar(sd, "completed", sd.completed),
     creditsUsed |-> GetScalar(sd, "creditsUsed", sd.creditsUsed),
     expiresAt |-> GetScalar(sd, "expiresAt", sd.expiresAt),
     data |-> d,
     next |-> GetNext(sd),
     error |-> IF Has(sd, "error") THEN sd.error ELSE "",
     success |-> ~Has(sd, "error"), details |-> ""]

\* The status query; the local `data` is bound only under
\* `if status_data.get('status') == 'completed': if 'data' in status_data:`.
AsyncCheckCrawlStatus_Query ==
    /\ op = "AsyncFirecrawlApp.check_crawl_status"
    /\ pc = "query"
    /\ \E a \in StatusAnswers :
        LET r == AsyncRequest(a, "make GET request") IN
        /\ queries' = queries + 1
        /\ pages' = << a >>
        /\ IF r.outcome = "raised" THEN
              /\ Finish(r)
              /\ UNCHANGED << status_data, data, data_bound, normalized >>
           ELSE
              /\ status_data' = r.value
              /\ UNCHANGED result
              /\ IF GetStatus(r.value) = "completed" /\ Has(r.value, "data")
                   THEN /\ data' = r.value.data
                        /\ data_bound' = TRUE
                        /\ normalized' = << >>
                        /\ pc' = "paginate"
                   ELSE /\ pc' = "build"
                        /\ UNCHANGED << data, data_bound, normalized >>
    /\ UNCHANGED << op, arg_interval, poll_interval, fetches, sleeps >>
    /\ UNCHANGED << transportVars, frontVars, watchVars, pairVars >>

\* One pass of the page loop that gets past the breaks; a failed fetch raises
\* out of the operation.
AsyncCheckCrawlStatus_NextPage ==
    /\ op = "AsyncFirecrawlApp.check_crawl_status"
    /\ pc = "paginate"
    /\ WalkStep(status_data, TRUE) \in {"fetch", "nodata"}
    /\ IF WalkStep(status_data, TRUE) = "nodata" THEN
          /\ Finish(Raised("KeyError", << "'data'" >>))
          /\ UNCHANGED << status_data, data, fetches, pages >>
       ELSE \E a \in PageAnswers(status_data.next, FirstId) :
          LET r == AsyncRequest(a, "make GET request") IN
          /\ fetches' = fetches + 1
          /\ pages' = Append(pages, a)
          /\ IF r.outcome = "raised"
               THEN /\ Finish(r)
                    /\ UNCHANGED << status_data, data >>
               ELSE /\ data' = Extend(data, GetData(r.value))
                    /\ status_data' = r.value
                    /\ UNCHANGED << pc, result >>
    /\ UNCHANGED << op, arg_interval, poll_interval, data_bound, normalized, queries, sleeps >>
    /\ UNCHANGED << transportVars, frontVars, watchVars, pairVars >>

\* After the `if`: the response is built, reading the local `data`.
AsyncCheckCrawlStatus_Return ==
    /\ op = "AsyncFirecrawlApp.check_crawl_status"
    /\ \/ pc = "build"
       \/ pc = "paginate" /\ WalkStep(status_data, TRUE) = "exit"
    /\ IF data_bound
         THEN Finish(Returned(AsyncStatusResponse(status_data, data)))
         ELSE Finish(Raised("UnboundLocalError", << "data" >>))
    /\ UNCHANGED << op, arg_interval, poll_interval, status_data, data, data_bound, normalized,
                    queries, fetches, sleeps, pages >>
    /\ UNCHANGED << transportVars, frontVars, watchVars, pairVars >>

(***************************************************************************)
(* FirecrawlApp.check_batch_scrape_status                                  *)
(***************************************************************************)
\* `time.sleep(poll_interval)`
BatchInterval(pi) == pi

\* Mutant of BatchKeepsPolling: 'scraping' ends the polling loop as well.
BatchKeepsPolling_UntilScraping(s) == s \notin {"completed", "scraping"}

\* `while status_data['status'] != 'completed'` goes on.
BatchKeepsPolling(s) == s # "completed"

\* Where a parsed status answer leaves the batch check: back in the polling
\* loop, or past it at `if 'data' in status_data`.
BatchAfterStatus(sd) ==
    /\ status_data' = sd
    /\ UNCHANGED result
    /\ IF BatchKeepsPolling(sd.status) THEN
          /\ pc' = "poll"
          /\ UNCHANGED << data, data_bound, normalized >>
       ELSE IF Has(sd, "data") THEN
          /\ data' = sd.data
          /\ data_bound' = TRUE
          /\ normalized' = << >>
          /\ pc' = "paginate"
       ELSE
          /\ pc' = "build"
          /\ UNCHANGED << data, data_bound, normalized >>

\* The first status query.
CheckBatch_Query ==
    /\ op = "check_batch_scrape_status"
    /\ pc = "query"
    /\ \E a \in StatusAnswers :
        /\ queries' = queries + 1
        /\ pages' = << a >>
        /\ IF a.code # 200 THEN
              /\ Finish(HandleError(a, "check batch scrape status"))
              /\ UNCHANGED << status_data, data, data_bound, normalized >>
           ELSE IF ~a.json THEN
              /\ Finish(ParseFailure)
              /\ UNCHANGED << status_data, data, data_bound, normalized >>
           ELSE BatchAfterStatus(a.body)
    /\ UNCHANGED << op, arg_interval, poll_interval, fetches, sleeps >>
    /\ UNCHANGED << transportVars, frontVars, watchVars, pairVars >>

\* One pass of the polling loop: sleep, query again; `response.json()` is not
\* guarded here.
CheckBatch_Poll ==
    /\ op = "check_batch_scrape_status"
    /\ pc = "poll"
    /\ queries < MaxQueries
    /\ sleeps' = Append(sleeps, BatchInterval(poll_interval))
    /\ \E a \in StatusAnswers :
        /\ queries' = queries + 1
        /\ pages' = << a >>
        /\ IF a.code # 200 THEN
              /\ Finish(HandleError(a, "check batch scrape status"))
              /\ UNCHANGED << status_data, data, data_bound, normalized >>
           ELSE IF ~a.json THEN
              /\ Finish(Raised("JSONDecodeError", << "Expecting value" >>))
              /\ UNCHANGED << status_data, data, data_bound, normalized >>
           ELSE BatchAfterStatus(a.body)
    /\ UNCHANGED << op, arg_interval, poll_interval, fetches >>
    /\ UNCHANGED << transportVars, frontVars, watchVars, pairVars >>

CheckBatch_NextPage == SyncStatus_NextPage("check_batch_scrape_status")

CheckBatch_Return == SyncStatus_Return("check_batch_scrape_status")


(***************************************************************************)
(* AsyncFirecrawlApp.check_batch_scrape_status                             *)
(***************************************************************************)
\* `await asyncio.sleep(poll_interval)`
AsyncBatchInterval(pi) == pi

\* `except Exception as e: await self._handle_error(response, ...)` with
\* `response` a dict: _handle_error reads response.json and response.status.
DictHandleError == Raised("AttributeError", << "'dict' object has no attribute 'status'" >>)

\* The first status query, before the `try`.
AsyncCheckBatch_Query ==
    /\ op = "async_check_batch_scrape_status"
    /\ pc = "query"
    /\ \E a \in StatusAnswers :
        LET r == AsyncRequest(a, "make GET request") IN
        /\ queries' = queries + 1
        /\ pages' = << a >>
        /\ IF r.outcome = "raised"
             THEN /\ Finish(r)
                  /\ UNCHANGED status_data
             ELSE /\ status_data' = r.value
                  /\ pc' = "loop"
                  /\ UNCHANGED result
    /\ UNCHANGED << op, arg_interval, poll_interval, data, data_bound, normalized, fetches, sleeps >>
    /\ UNCHANGED << transportVars, frontVars, watchVars, pairVars >>

\* One pass of `while response.get('status') != 'completed'` up to the page
\* loop, which sits inside the polling loop.
AsyncCheckBatch_Poll ==
    /\ op = "async_check_batch_scrape_status"
    /\ pc = "loop"
    /\ BatchKeepsPolling(GetStatus(status_data))
    /\ queries < MaxQueries
    /\ sleeps' = Append(sleeps, AsyncBatchInterval(poll_interval))
    /\ \E a \in StatusAnswers :
        LET r == AsyncRequest(a, "make GET request") IN
        /\ queries' = queries + 1
        /\ pages' = << a >>
        /\ IF r.outcome = "raised" THEN
              /\ Finish(DictHandleError)
              /\ UNCHANGED << status_data, data, data_bound, normalized >>
           ELSE
              /\ status_data' = r.value
              /\ UNCHANGED result
              /\ IF Has(r.value, "data")
                   THEN /\ data' = r.value.data
                        /\ data_bound' = TRUE
                        /\ normalized' = << >>
                        /\ pc' = "paginate"
                   ELSE /\ UNCHANGED << pc, data, data_bound, normalized >>
    /\ UNCHANGED << op, arg_interval, poll_interval, fetches >>
    /\ UNCHANGED << transportVars, frontVars, watchVars, pairVars >>

\* `next_data = response.get('data'); if next_data: data.extend(next_data.get('data', []))`:
\* next_data is a list, so a non-empty one has no `get`; the AttributeError is
\* caught by the inner `except Exception` and ends the page loop.
AsyncBatchExtendFails(body) == Has(body, "data") /\ Len(body.data) > 0

\* One pass of the page loop that reaches the fetch.
AsyncCheckBatch_NextPage ==
    /\ op = "async_check_batch_scrape_status"
    /\ pc = "paginate"
    /\ WalkStep(status_data, TRUE) \in {"fetch", "nodata"}
    /\ IF WalkStep(status_data, TRUE) = "nodata" THEN
          /\ Finish(DictHandleError)
          /\ UNCHANGED << status_data, fetches, pages, normalized >>
       ELSE \E a \in PageAnswers(status_data.next, FirstId) :
          LET r == AsyncRequest(a, "make GET request") IN
          /\ fetches' = fetches + 1
          /\ pages' = Append(pages, a)
          /\ UNCHANGED result
          /\ IF r.outcome = "raised" THEN
                /\ pc' = "loop"
                /\ normalized' = Normalize(normalized, data)
                /\ UNCHANGED status_data
             ELSE
                /\ status_data' = r.value
                /\ IF AsyncBatchExtendFails(r.value)
                     THEN /\ pc' = "loop"
                          /\ normalized' = Normalize(normalized, data)
                     ELSE UNCHANGED << pc, normalized >>
    /\ UNCHANGED << op, arg_interval, poll_interval, data, data_bound, queries, sleeps >>
    /\ UNCHANGED << transportVars, frontVars, watchVars, pairVars >>

\* The page loop ends without a fetch: the documents are normalized and
\* control is back at the polling loop.
AsyncCheckBatch_EndPages ==
    /\ op = "async_check_batch_scrape_status"
    /\ pc = "paginate"
    /\ WalkStep(status_data, TRUE) = "exit"
    /\ pc' = "loop"
    /\ normalized' = Normalize(normalized, data)
    /\ UNCHANGED << op, arg_interval, poll_interval, status_data, data, data_bound,
                    queries, fetches, sleeps, pages, result >>
    /\ UNCHANGED << transportVars, frontVars, watchVars, pairVars >>

\* The polling loop ends: the response dict is built, reading the local `data`.
AsyncCheckBatch_Return ==
    /\ op = "async_check_batch_scrape_status"
    /\ pc = "loop"
    /\ ~BatchKeepsPolling(GetStatus(status_data))
    /\ IF data_bound
         THEN Finish(Returned(StatusDict(status_data, data)))
         ELSE Finish(DictHandleError)
    /\ UNCHANGED << op, arg_interval, poll_interval, status_data, data, data_bound, normalized,
                    queries, fetches, sleeps, pages >>
    /\ UNCHANGED << transportVars, frontVars, watchVars, pairVars >>

(***************************************************************************)
(* The polling loops of FirecrawlApp.extract and AsyncFirecrawlApp.extract *)
(* (entered once the submission has returned a job id).                    *)
(***************************************************************************)
ExtractInterval == 2

\* `elif status_data['status'] in ['failed', 'cancelled']`
ExtractRaises(s) == s \in ExtractFailed

\* f'Extract job {status}. Error: {error}'; status_data["error"] raises
\* KeyError when the body has no error key.
ExtractFailure(sd) ==
    IF Has(sd, "error")
      THEN Raised("Exception", << "Extract job ", sd.status, ". Error: ", sd.error >>)
      ELSE Raised("KeyError", << "'error'" >>)

\* `except Exception as e: raise ValueError(str(e), 500)`
AsValueError(r) == Raised("ValueError", r.msg)

Extract_Query ==
    /\ op = "extract"
    /\ pc = "query"
    /\ queries < MaxQueries
    /\ \E a \in StatusAnswers :
        /\ queries' = queries + 1
        /\ pages' = << a >>
        /\ IF a.code # 200 THEN
              /\ Finish(AsValueError(HandleError(a, "extract-status")))
              /\ UNCHANGED << status_data, sleeps >>
           ELSE IF ~a.json THEN
              /\ Finish(AsValueError(ParseFailure))
              /\ UNCHANGED << status_data, sleeps >>
           ELSE IF a.body.status = "completed" THEN
              /\ status_data' = a.body
              /\ Finish(Returned(a.body))
              /\ UNCHANGED sleeps
           ELSE IF ExtractRaises(a.body.status) THEN
              /\ status_data' = a.body
              /\ Finish(AsValueError(ExtractFailure(a.body)))
              /\ UNCHANGED sleeps
           ELSE
              /\ status_data' = a.body
              /\ sleeps' = Append(sleeps, ExtractInterval)
              /\ UNCHANGED << pc, result >>
    /\ UNCHANGED << op, arg_interval, poll_interval, data, data_bound, normalized, fetches >>
    /\ UNCHANGED << transportVars, frontVars, watchVars, pairVars >>

AsyncExtract_Query ==
    /\ op = "async_extract"
    /\ pc = "query"
    /\ queries < MaxQueries
    /\ \E a \in StatusAnswers :
        LET r == AsyncRequest(a, "make GET request") IN
        /\ queries' = queries + 1
        /\ pages' = << a >>
        /\ IF r.outcome = "raised" THEN
              /\ Finish(r)
              /\ UNCHANGED << status_data, sleeps >>
           ELSE IF r.value.status = "completed" THEN
              /\ status_data' = r.value
              /\ Finish(Returned(r.value))
              /\ UNCHANGED sleeps
           ELSE IF ExtractRaises(r.value.status) THEN
              /\ status_data' = r.value
              /\ Finish(ExtractFailure(r.value))
              /\ UNCHANGED sleeps
           ELSE
              /\ status_data' = r.value
              /\ sleeps' = Append(sleeps, ExtractInterval)
              /\ UNCHANGED << pc, result >>
    /\ UNCHANGED << op, arg_interval, poll_interval, data, data_bound, normalized, fetches >>
    /\ UNCHANGED << transportVars, frontVars, watchVars, pairVars >>

(***************************************************************************)
(* Submission: the POST that creates a job, as the operations see it.      *)
(***************************************************************************)
\* The JSON body of a 200 answer to a submission: `success` true or false
\* or absent, with or without an id, with or without an error.
SubmitBody(ks, ok) ==
    [NoBody EXCEPT !.keys = ks, !.success = ok,
                   !.error = IF "error" \in ks THEN "boom" ELSE ""]

SubmitBodies ==
    { SubmitBody({"success", "id"}, TRUE),
      SubmitBody({"success"}, TRUE),
      SubmitBody({"id"}, FALSE),
      SubmitBody({"success", "error"}, FALSE),
      SubmitBody({"success"}, FALSE) }

\* What the service may answer to a submission POST.
SubmitAnswers ==
    { Answer(200, TRUE, b) : b \in SubmitBodies }
      \cup { Answer(c, TRUE, ErrBody) : c \in ErrCodes }
      \cup { Answer(c, FALSE, NoBody) : c \in ErrCodes \cup {200} }
      \cup { Answer(200, FALSE, Garbled) }

\* response.get('id') as the id of a job: the value of the key, or None.
GetId(d) == IF Has(d, "id") THEN "id" ELSE NoneStr

\* response.get('success') as a condition.
Succeeded(d) == Has(d, "success") /\ d.success

(***************************************************************************)
(* FirecrawlApp.batch_scrape_urls and AsyncFirecrawlApp.batch_scrape_urls  *)
(***************************************************************************)
\* FirecrawlApp._validate_kwargs: unknown keyword arguments raise ValueError.
ValidateKwargs(unknown, method_name) ==
    IF unknown
      THEN Raised("ValueError", << "Unsupported parameter(s) for ", method_name >>)
      ELSE NoResult

BatchScrapeOps == {"batch_scrape_urls", "AsyncFirecrawlApp.batch_scrape_urls"}

\* `poll_interval: Optional[int] = 2`
DefaultPollInterval == 2

\* The call up to the POST: keyword validation and the request parameters.
BatchScrape_Call(o, pi, unknown) ==
    /\ op = "idle"
    /\ op' = o
    /\ entry' = o
    /\ arg_interval' = pi
    /\ poll_interval' = pi
    /\ IF ValidateKwargs(unknown, "batch_scrape_urls").outcome = "raised"
         THEN Finish(ValidateKwargs(unknown, "batch_scrape_urls"))
         ELSE /\ pc' = "submit"
              /\ UNCHANGED result
    /\ UNCHANGED << status_data, data, data_bound, normalized, queries, fetches, sleeps, pages >>
    /\ UNCHANGED << posts, args, job_id >>
    /\ UNCHANGED << transportVars, watchVars, pairVars >>

\* The POST of the sync operation; a 200 answer leads into
\* check_batch_scrape_status with whatever id the body holds (None without one).
BatchScrape_Submit ==
    /\ op = "batch_scrape_urls"
    /\ pc = "submit"
    /\ posts' = posts + 1
    /\ \E a \in SubmitAnswers :
        IF a.code # 200 THEN
            /\ Finish(HandleError(a, "start batch scrape job"))
            /\ UNCHANGED << op, job_id >>
        ELSE IF ~a.json THEN
            /\ Finish(ParseFailure)
            /\ UNCHANGED << op, job_id >>
        ELSE
            /\ op' = "check_batch_scrape_status"
            /\ pc' = "query"
            /\ job_id' = GetId(a.body)
            /\ UNCHANGED result
    /\ UNCHANGED << arg_interval, poll_interval, status_data, data, data_bound, normalized,
                    queries, fetches, sleeps, pages >>
    /\ UNCHANGED << entry, args >>
    /\ UNCHANGED << transportVars, watchVars, pairVars >>

\* The POST of the async operation; without a truthy `success` the parsed
\* body, a dict, is handed to _handle_error.
AsyncBatchScrape_Submit ==
    /\ op = "AsyncFirecrawlApp.batch_scrape_urls"
    /\ pc = "submit"
    /\ posts' = posts + 1
    /\ \E a \in SubmitAnswers :
        LET r == AsyncRequest(a, "make POST request") IN
        IF r.outcome = "raised" THEN
            /\ Finish(r)
            /\ UNCHANGED << op, job_id >>
        ELSE IF ~Succeeded(r.value) THEN
            /\ Finish(DictHandleError)
            /\ UNCHANGED << op, job_id >>
        ELSE
            /\ op' = "async_check_batch_scrape_status"
            /\ pc' = "query"
            /\ job_id' = GetId(r.value)
            /\ UNCHANGED result
    /\ UNCHANGED << arg_interval, poll_interval, status_data, data, data_bound, normalized,
                    queries, fetches, sleeps, pages >>
    /\ UNCHANGED << entry, args >>
    /\ UNCHANGED << transportVars, watchVars, pairVars >>

(***************************************************************************)
(* FirecrawlApp.crawl_url                                                  *)
(***************************************************************************)
\* The call up to the POST: keyword validation and the request parameters.
Crawl_Call(pi, unknown) ==
    /\ op = "idle"
    /\ op' = "crawl_url"
    /\ entry' = "crawl_url"
    /\ arg_interval' = pi
    /\ poll_interval' = pi
    /\ IF ValidateKwargs(unknown, "crawl_url").outcome = "raised"
         THEN Finish(ValidateKwargs(unknown, "crawl_url"))
         ELSE /\ pc' = "submit"
              /\ UNCHANGED result
    /\ UNCHANGED << status_data, data, data_bound, normalized, queries, fetches, sleeps, pages >>
    /\ UNCHANGED << posts, args, job_id >>
    /\ UNCHANGED << transportVars, watchVars, pairVars >>

\* The POST; a 200 answer leads into _monitor_job_status with whatever id
\* the body holds (None without one).
Crawl_Submit ==
    /\ op = "crawl_url"
    /\ pc = "submit"
    /\ posts' = posts + 1
    /\ \E a \in SubmitAnswers :
        IF a.code # 200 THEN
            /\ Finish(HandleError(a, "start crawl job"))
            /\ UNCHANGED << op, job_id >>
        ELSE IF ~a.json THEN
            /\ Finish(ParseFailure)
            /\ UNCHANGED << op, job_id >>
        ELSE
            /\ op' = "_monitor_job_status"
            /\ pc' = "query"
            /\ job_id' = GetId(a.body)
            /\ UNCHANGED result
    /\ UNCHANGED << arg_interval, poll_interval, status_data, data, data_bound, normalized,
                    queries, fetches, sleeps, pages >>
    /\ UNCHANGED << entry, args >>
    /\ UNCHANGED << transportVars, watchVars, pairVars >>

(***************************************************************************)
(* AsyncFirecrawlApp.crawl_url, async_crawl_url and async_batch_scrape_urls *)
(***************************************************************************)
\* Python's None as a returned value: not a dict, so it has none of the keys.
NoneValue == [NoBody EXCEPT !.keys = {"None"}]

\* `self._handle_error(response, ...)` without `await`: the call only builds
\* a coroutine object, which is dropped; nothing is raised, the function
\* falls off its end and the caller receives None.
UnawaitedHandleError == Returned(NoneValue)

AsyncSubmitOps == {"AsyncFirecrawlApp.crawl_url", "AsyncFirecrawlApp.async_crawl_url",
                   "AsyncFirecrawlApp.async_batch_scrape_urls"}

\* The name under which an operation calls _validate_kwargs; async_crawl_url
\* does not call it.
KwargsChecked(o) ==
    IF o = "AsyncFirecrawlApp.crawl_url" THEN "crawl_url"
    ELSE IF o = "AsyncFirecrawlApp.async_batch_scrape_urls" THEN "async_batch_scrape_urls"
    ELSE ""

\* The call up to the POST.
AsyncSubmit_Call(o, pi, unknown) ==
    /\ op = "idle"
    /\ op' = o
    /\ entry' = o
    /\ arg_interval' = pi
    /\ poll_interval' = pi
    /\ IF KwargsChecked(o) # "" /\ ValidateKwargs(unknown, KwargsChecked(o)).outcome = "raised"
         THEN Finish(ValidateKwargs(unknown, KwargsChecked(o)))
         ELSE /\ pc' = "submit"
              /\ UNCHANGED result
    /\ UNCHANGED << status_data, data, data_bound, normalized, queries, fetches, sleeps, pages >>
    /\ UNCHANGED << posts, args, job_id >>
    /\ UNCHANGED << transportVars, watchVars, pairVars >>

\* The POST of crawl_url: a truthy `success` leads into
\* _async_monitor_job_status with whatever id the body holds.
AsyncCrawl_Submit ==
    /\ op = "AsyncFirecrawlApp.crawl_url"
    /\ pc = "submit"
    /\ posts' = posts + 1
    /\ \E a \in SubmitAnswers :
        LET r == AsyncRequest(a, "make POST request") IN
        IF r.outcome = "raised" THEN
            /\ Finish(r)
            /\ UNCHANGED << op, job_id >>
        ELSE IF ~Succeeded(r.value) THEN
            /\ Finish(UnawaitedHandleError)
            /\ UNCHANGED << op, job_id >>
        ELSE
            /\ op' = "_async_monitor_job_status"
            /\ pc' = "query"
            /\ job_id' = GetId(r.value)
            /\ UNCHANGED result
    /\ UNCHANGED << arg_interval, poll_interval, status_data, data, data_bound, normalized,
                    queries, fetches, sleeps, pages >>
    /\ UNCHANGED << entry, args >>
    /\ UNCHANGED << transportVars, watchVars, pairVars >>

\* The POST of async_crawl_url and of async_batch_scrape_urls: a truthy
\* `success` returns CrawlResponse(**response) / BatchScrapeResponse(**response).
AsyncStart_Submit ==
    /\ op \in {"AsyncFirecrawlApp.async_crawl_url", "AsyncFirecrawlApp.async_batch_scrape_urls"}
    /\ pc = "submit"
    /\ posts' = posts + 1
    /\ \E a \in SubmitAnswers :
        LET r == AsyncRequest(a, "make POST request") IN
        IF r.outcome = "raised" THEN Finish(r)
        ELSE IF ~Succeeded(r.value) THEN Finish(UnawaitedHandleError)
        ELSE Finish(Returned(r.value))
    /\ UNCHANGED << op, arg_interval, poll_interval, status_data, data, data_bound, normalized,
                    queries, fetches, sleeps, pages >>
    /\ UNCHANGED << entry, args, job_id >>
    /\ UNCHANGED << transportVars, watchVars, pairVars >>

(***************************************************************************)
(* The front of FirecrawlApp.extract and AsyncFirecrawlApp.extract:        *)
(* argument checks and submission.                                         *)
(***************************************************************************)
ExtractArgs == [urls : BOOLEAN, prompt : BOOLEAN, schema : BOOLEAN]

\* Mutant of ExtractValidation: the first check is missing.
ExtractValidation_UrlsOnly(a) ==
    IF ~a.urls /\ ~a.prompt
      THEN Raised("ValueError", << "Either urls or prompt is required" >>)
      ELSE NoResult

\* `if not prompt and not schema: raise ...` / `if not urls and not prompt: raise ...`
ExtractValidation(a) ==
    IF ~a.prompt /\ ~a.schema
      THEN Raised("ValueError", << "Either prompt or schema is required" >>)
    ELSE IF ~a.urls /\ ~a.prompt
      THEN Raised("ValueError", << "Either urls or prompt is required" >>)
    ELSE NoResult

ExtractOps == {"extract", "async_extract"}

\* The call up to the POST.
Extract_Call(o, a) ==
    /\ op = "idle"
    /\ op' = o
    /\ entry' = o
    /\ args' = a
    /\ IF ExtractValidation(a).outcome = "raised"
         THEN Finish(ExtractValidation(a))
         ELSE /\ pc' = "submit"
              /\ UNCHANGED result
    /\ UNCHANGED << arg_interval, poll_interval, status_data, data, data_bound, normalized,
                    queries, fetches, sleeps, pages >>
    /\ UNCHANGED << posts, job_id >>
    /\ UNCHANGED << transportVars, watchVars, pairVars >>

\* The POST of the sync operation, inside `try ... except Exception as e:
\* raise ValueError(str(e), 500)`.
Extract_Submit ==
    /\ op = "extract"
    /\ pc = "submit"
    /\ posts' = posts + 1
    /\ \E a \in SubmitAnswers :
        IF a.code # 200 THEN
            Finish(AsValueError(HandleError(a, "extract")))
        ELSE IF ~a.json THEN
            Finish(AsValueError(ParseFailure))
        ELSE IF ~Has(a.body, "success") THEN
            Finish(AsValueError(Raised("KeyError", << "'success'" >>)))
        ELSE IF a.body.success THEN
            IF Has(a.body, "id")
              THEN /\ pc' = "query"
                   /\ UNCHANGED result
              ELSE Finish(AsValueError(Raised("Exception",
                              << "Job ID not returned from extract request." >>)))
        ELSE IF Has(a.body, "error") THEN
            Finish(AsValueError(Raised("Exception",
                       << "Failed to extract. Error: ", a.body.error >>)))
        ELSE
            Finish(AsValueError(Raised("KeyError", << "'error'" >>)))
    /\ UNCHANGED << op, arg_interval, poll_interval, status_data, data, data_bound, normalized,
                    queries, fetches, sleeps, pages >>
    /\ UNCHANGED << entry, args, job_id >>
    /\ UNCHANGED << transportVars, watchVars, pairVars >>

\* The POST of the async operation; nothing wraps its errors.
AsyncExtract_Submit ==
    /\ op = "async_extract"
    /\ pc = "submit"
    /\ posts' = posts + 1
    /\ \E a \in SubmitAnswers :
        LET r == AsyncRequest(a, "make POST request") IN
        IF r.outcome = "raised" THEN
            Finish(r)
        ELSE IF Succeeded(r.value) THEN
            IF Has(r.value, "id")
              THEN /\ pc' = "query"
                   /\ UNCHANGED result
              ELSE Finish(Raised("Exception",
                              << "Job ID not returned from extract request." >>))
        ELSE
            Finish(Raised("Exception",
                       << "Failed to extract. Error: ",
                          IF Has(r.value, "error") THEN r.value.error ELSE NoneStr >>))
    /\ UNCHANGED << op, arg_interval, poll_interval, status_data, data, data_bound, normalized,
                    queries, fetches, sleeps, pages >>
    /\ UNCHANGED << entry, args, job_id >>
    /\ UNCHANGED << transportVars, watchVars, pairVars >>

(***************************************************************************)
(* FirecrawlApp.async_extract and AsyncFirecrawlApp.async_extract: the     *)
(* submission alone, without the wait.                                     *)
(***************************************************************************)
\* FirecrawlApp.async_extract checks none of its arguments.
StartExtractValidation(a) == NoResult

\* The call of FirecrawlApp.async_extract up to the POST.
StartExtract_Call(a) ==
    /\ op = "idle"
    /\ op' = "FirecrawlApp.async_extract"
    /\ entry' = "FirecrawlApp.async_extract"
    /\ args' = a
    /\ IF StartExtractValidation(a).outcome = "raised"
         THEN Finish(StartExtractValidation(a))
         ELSE /\ pc' = "submit"
              /\ UNCHANGED result
    /\ UNCHANGED << arg_interval, poll_interval, status_data, data, data_bound, normalized,
                    queries, fetches, sleeps, pages >>
    /\ UNCHANGED << posts, job_id >>
    /\ UNCHANGED << transportVars, watchVars, pairVars >>

\* Its POST: ExtractResponse(**response.json()) on 200.
StartExtract_Submit ==
    /\ op = "FirecrawlApp.async_extract"
    /\ pc = "submit"
    /\ posts' = posts + 1
    /\ \E a \in SubmitAnswers :
        IF a.code # 200 THEN
            Finish(AsValueError(HandleError(a, "async extract")))
        ELSE IF ~a.json THEN
            Finish(AsValueError(ParseFailure))
        ELSE
            Finish(Returned(a.body))
    /\ UNCHANGED << op, arg_interval, poll_interval, status_data, data, data_bound, normalized,
                    queries, fetches, sleeps, pages >>
    /\ UNCHANGED << entry, args, job_id >>
    /\ UNCHANGED << transportVars, watchVars, pairVars >>

\* The call of AsyncFirecrawlApp.async_extract up to the POST.  After the
\* checks, `request_data['prompt'] = prompt` assigns an item of an
\* ExtractResponse object; whether that class supports item assignment is
\* decided outside this file, so both outcomes are possible.
AsyncStartExtract_Call(a, assignable) ==
    /\ op = "idle"
    /\ op' = "AsyncFirecrawlApp.async_extract"
    /\ entry' = "AsyncFirecrawlApp.async_extract"
    /\ args' = a
    /\ IF ExtractValidation(a).outcome = "raised" THEN
          Finish(ExtractValidation(a))
       ELSE IF a.prompt /\ ~assignable THEN
          Finish(Raised("TypeError", << "object does not support item assignment" >>))
       ELSE
          /\ pc' = "submit"
          /\ UNCHANGED result
    /\ UNCHANGED << arg_interval, poll_interval, status_data, data, data_bound, normalized,
                    queries, fetches, sleeps, pages >>
    /\ UNCHANGED << posts, job_id >>
    /\ UNCHANGED << transportVars, watchVars, pairVars >>

\* Its POST, inside `try ... except Exception as e: raise ValueError(str(e))`.
AsyncStartExtract_Submit ==
    /\ op = "AsyncFirecrawlApp.async_extract"
    /\ pc = "submit"
    /\ posts' = posts + 1
    /\ \E a \in SubmitAnswers :
        LET r == AsyncRequest(a, "make POST request") IN
        IF r.outcome = "raised"
          THEN Finish(AsValueError(r))
          ELSE Finish(Returned(r.value))
    /\ UNCHANGED << op, arg_interval, poll_interval, status_data, data, data_bound, normalized,
                    queries, fetches, sleeps, pages >>
    /\ UNCHANGED << entry, args, job_id >>
    /\ UNCHANGED << transportVars, watchVars, pairVars >>

(***************************************************************************)
(* CrawlWatcher and AsyncCrawlWatcher: the session over the WebSocket.     *)
(* The async class repeats connect, _listen and _handle_message line for   *)
(* line and inherits add_event_listener and dispatch_event.  Handlers are  *)
(* the caller's functions; the n-th handler registered for an event type is *)
(* called n.  A handler returns normally or raises.                         *)
(***************************************************************************)
WatcherOps == {"CrawlWatcher", "AsyncCrawlWatcher"}

\* self.id
JobId == "job"

\* A decoded message: its type, and for a catchup the embedded status and
\* the embedded data list when the key is there; for a document the one
\* document; for an error the error text.
Msg(type, status, hasData, docs, error) ==
    [type |-> type, status |-> status, hasData |-> hasData, docs |-> docs, error |-> error]

\* The messages the service may send next; documents get the ids
\* first, first+1, ...; "ping" stands for any type the code does not know;
\* a catchup embeds a status and, unless the job has no documents yet, a
\* data list.
Messages(first) ==
    { Msg("done", "", FALSE, << >>, ""),
      Msg("error", "", FALSE, << >>, "boom"),
      Msg("document", "", TRUE, << first >>, ""),
      Msg("ping", "", FALSE, << >>, ""),
      Msg("catchup", "completed", FALSE, << >>, ""),
      Msg("catchup", "scraping", TRUE, [i \in 1..MaxCatchup |-> first + i - 1], "") }

\* One dispatch_event call: the event type and the detail dict (its keys and
\* values), tagged with the number of the message that caused it; `calls`
\* (the handlers invoked, in order), `raised` (the handler that raised, if
\* one did) and `seen` (self.status during the call) are filled in when the
\* call is made.
NoHandler == 0

Event(serial, event, ks, status, docs, doc, error) ==
    [serial |-> serial, event |-> event, keys |-> ks, status |-> status,
     data |-> docs, doc |-> doc, error |-> error, id |-> JobId,
     calls |-> << >>, raised |-> NoHandler, seen |-> ""]

\* {'data': doc, 'id': self.id}
DocumentEvent(serial, doc) ==
    Event(serial, "document", {"data", "id"}, "", << >>, doc, "")

\* Mutant of StatusAfter: 'done' leaves the status as it was.
StatusAfter_DoneKeeps(status, msg) ==
    IF msg.type = "error" THEN "failed"
    ELSE IF msg.type = "catchup" THEN msg.status
    ELSE status

\* Mutant of StatusAfter: a message of a type the code does not know counts
\* as a failure.
StatusAfter_UnknownFails(status, msg) ==
    IF msg.type = "done" THEN "completed"
    ELSE IF msg.type = "catchup" THEN msg.status
    ELSE IF msg.type = "document" THEN status
    ELSE "failed"

\* self.status after _handle_message.
StatusAfter(status, msg) ==
    IF msg.type = "done" THEN "completed"
    ELSE IF msg.type = "error" THEN "failed"
    ELSE IF msg.type = "catchup" THEN msg.status
    ELSE status

\* Mutant of DataAfter: 'done' empties the accumulated documents.
DataAfter_DoneClears(docs, msg) ==
    IF msg.type = "done" THEN << >>
    ELSE IF msg.type = "catchup" THEN Extend(docs, IF msg.hasData THEN msg.docs ELSE << >>)
    ELSE IF msg.type = "document" THEN Append(docs, msg.docs[1])
    ELSE docs

\* Mutant of DataAfter: a catchup puts its documents in the place of the
\* accumulated ones.
DataAfter_CatchupReplaces(docs, msg) ==
    IF msg.type = "catchup" THEN (IF msg.hasData THEN msg.docs ELSE << >>)
    ELSE IF msg.type = "document" THEN Append(docs, msg.docs[1])
    ELSE docs

\* self.data after _handle_message: `self.data.extend(msg['data'].get('data', []))`
\* on a catchup, `self.data.append(msg['data'])` on a document.
DataAfter(docs, msg) ==
    IF msg.type = "catchup" THEN Extend(docs, IF msg.hasData THEN msg.docs ELSE << >>)
    ELSE IF msg.type = "document" THEN Append(docs, msg.docs[1])
    ELSE docs

\* Mutant of ReplayedDocs: a catchup replays only the documents it brought.
ReplayedDocs_NewOnly(before, after) == SubSeq(after, Len(before) + 1, Len(after))

\* `for doc in self.data` after the extend: every accumulated document.
ReplayedDocs(before, after) == after

\* The dispatch_event calls _handle_message makes for a message, in order.
Dispatches(serial, status, docs, msg) ==
    IF msg.type = "done" THEN
        << Event(serial, "done", {"status", "data", "id"},
                 StatusAfter(status, msg), DataAfter(docs, msg), 0, "") >>
    ELSE IF msg.type = "error" THEN
        << Event(serial, "error", {"status", "data", "error", "id"},
                 StatusAfter(status, msg), DataAfter(docs, msg), 0, msg.error) >>
    ELSE IF msg.type = "catchup" THEN
        LET replay == ReplayedDocs(docs, DataAfter(docs, msg)) IN
        [i \in 1..Len(replay) |-> DocumentEvent(serial, replay[i])]
    ELSE IF msg.type = "document" THEN
        << DocumentEvent(serial, msg.docs[1]) >>
    ELSE << >>

\* Mutant of ReaderReady: the reader takes the next message at any time.
ReaderReady_Always(pending) == TRUE

\* `await self._handle_message(msg)` inside `async for message in websocket`:
\* the loop reads again once the handling, dispatches included, is over.
ReaderReady(pending) == pending = << >>

\* self.app.api_url, in the parts that matter to str.replace: the default
\* 'https://api.firecrawl.dev'.
ApiUrl == << "http", "s://api.firecrawl.dev" >>

\* self.app.api_key
ApiKey == "fc-key"

\* `app.api_url.replace('http', 'ws')`: every occurrence is replaced.
ReplaceHttp(url) == [i \in 1..Len(url) |-> IF url[i] = "http" THEN "ws" ELSE url[i]]

\* `f"{app.api_url.replace('http', 'ws')}/v1/crawl/{id}"`, whoever creates
\* the watcher.
WsUrl(api_url, id) == ReplaceHttp(api_url) \o << "/v1/crawl/", id >>

\* f'Bearer {self.api_key}', in _prepare_headers and in connect alike.
Bearer(key) == << "Bearer ", key >>

\* The Authorization header _prepare_headers builds for the REST calls.
PrepareHeaders == [Authorization |-> Bearer(ApiKey)]

\* The fields CrawlWatcher.__init__ sets.
WatcherInit ==
    /\ w_status' = "scraping"
    /\ w_data' = << >>
    /\ w_url' = WsUrl(ApiUrl, JobId)
    /\ w_handlers' = [t \in EventTypes |-> << >>]

\* CrawlWatcher.__init__
Watcher_New(c) ==
    /\ op = "idle"
    /\ op' = c
    /\ pc' = "setup"
    /\ WatcherInit
    /\ UNCHANGED << w_conn, w_msgs, w_pending, w_events >>
    /\ UNCHANGED << pollVars, transportVars, frontVars, pairVars >>

\* The handlers registered so far.
Registered ==
    Len(w_handlers["done"]) + Len(w_handlers["error"]) + Len(w_handlers["document"])

\* Mutant of Register: the new handler is put in front of the list.
Register_InFront(handlers, h) == << h >> \o handlers

\* `self.event_handlers[event_type].append(handler)`
Register(handlers, h) == Append(handlers, h)

\* The caller registers handlers before it connects and, from another task,
\* whenever the reader awaits the next message, however many it has read.
\* _handle_message has no await of its own, so no registration falls between
\* the dispatches of one message.
LatePoints == 0..MaxMessages

\* CrawlWatcher.add_event_listener: an unknown event type is ignored.
Watcher_AddListener(t) ==
    /\ op \in WatcherOps
    /\ pc = "setup" \/ (pc = "listen" /\ ReaderReady(w_pending) /\ Len(w_msgs) \in LatePoints)
    /\ Registered < MaxListeners
    /\ w_handlers' = IF t \in EventTypes
                       THEN [w_handlers EXCEPT ![t] = Register(@, Len(@) + 1)]
                       ELSE w_handlers
    /\ UNCHANGED << op, pc, w_url, w_conn, w_status, w_data, w_msgs, w_pending, w_events >>
    /\ UNCHANGED << pollVars, transportVars, frontVars, pairVars >>

\* The operations that start a job and hand back a watcher for it.
WatchFactories == {"crawl_url_and_watch", "batch_scrape_urls_and_watch",
                   "AsyncFirecrawlApp.crawl_url_and_watch",
                   "AsyncFirecrawlApp.batch_scrape_urls_and_watch"}

\* Mutant of Connects: `async for websocket in websockets.connect(...)`,
\* which opens a new connection whenever the last one has closed.
Connects_Again(p) == p \in {"setup", "done", "dropped"}

\* `async with websockets.connect(...) as websocket`: a connect call opens
\* one connection, when it starts.
Connects(p) == p = "setup"

\* CrawlWatcher.connect: the socket opens on self.ws_url with the bearer
\* header and _listen starts.
Watcher_Connect ==
    /\ op \in WatcherOps \cup WatchFactories
    /\ Connects(pc)
    /\ pc' = "listen"
    /\ w_conn' = [url |-> w_url, auth |-> Bearer(ApiKey)]
    /\ UNCHANGED << op, w_url, w_status, w_data, w_handlers, w_msgs, w_pending, w_events >>
    /\ UNCHANGED << pollVars, transportVars, frontVars, pairVars >>

\* One pass of the reader loop up to the first dispatch: the message is
\* decoded and _handle_message updates status and data.
Watcher_Receive ==
    /\ op \in WatcherOps
    /\ pc = "listen"
    /\ ReaderReady(w_pending)
    /\ Len(w_msgs) < MaxMessages
    /\ \E msg \in Messages(Len(w_data) + 1) :
        /\ w_msgs' = Append(w_msgs, msg)
        /\ w_status' = StatusAfter(w_status, msg)
        /\ w_data' = DataAfter(w_data, msg)
        /\ w_pending' = w_pending \o Dispatches(Len(w_msgs) + 1, w_status, w_data, msg)
    /\ UNCHANGED << op, pc, w_url, w_conn, w_handlers, w_events >>
    /\ UNCHANGED << pollVars, transportVars, frontVars, pairVars >>

\* Mutant of Invoked: a handler that raises does not keep the later ones
\* from being called.
Invoked_Isolated(handlers, k) == handlers

\* `for handler in self.event_handlers[event_type]: handler(detail)`: the
\* handlers called, in list order, when the k-th raises (k = 0: none does);
\* nothing catches the exception, so the loop ends with the k-th.
Invoked(handlers, k) == IF k = 0 THEN handlers ELSE SubSeq(handlers, 1, k)

\* Where a dispatch_event call leaves the session: an exception leaves
\* dispatch_event, _handle_message, _listen and connect, none of which has a
\* `try` around the call.
AfterDispatch(k) == IF k = 0 THEN "listen" ELSE "raised"

\* CrawlWatcher.dispatch_event: the handlers of the event type are called in
\* list order with the detail; the k-th raises (k = 0: none does).
Watcher_Dispatch(k) ==
    /\ op \in WatcherOps
    /\ pc = "listen"
    /\ w_pending # << >>
    /\ k <= Len(w_handlers[Head(w_pending).event])
    /\ w_events' = Append(w_events,
                          [Head(w_pending) EXCEPT
                              !.calls = Invoked(w_handlers[Head(w_pending).event], k),
                              !.raised = IF k = 0 THEN NoHandler
                                         ELSE w_handlers[Head(w_pending).event][k],
                              !.seen = w_status])
    /\ w_pending' = Tail(w_pending)
    /\ pc' = AfterDispatch(k)
    /\ UNCHANGED << op, w_url, w_conn, w_status, w_data, w_handlers, w_msgs >>
    /\ UNCHANGED << pollVars, transportVars, frontVars, pairVars >>

\* The watcher object a factory returns.
WatcherValue == [NoBody EXCEPT !.keys = {"CrawlWatcher"}]

\* The call of a factory up to its POST.  The two factories of
\* AsyncFirecrawlApp take no **kwargs, so that an unknown keyword fails the
\* call itself; they pass `params` and `idempotency_key` positionally to
\* async_crawl_url / async_batch_scrape_urls, which take keywords only after
\* the first argument: the call raises TypeError before any request.
WatchFactory_Call(o, unknown) ==
    /\ op = "idle"
    /\ op' = o
    /\ entry' = o
    /\ IF o \in {"AsyncFirecrawlApp.crawl_url_and_watch",
                 "AsyncFirecrawlApp.batch_scrape_urls_and_watch"} THEN
          IF unknown
            THEN Finish(Raised("TypeError", << "got an unexpected keyword argument" >>))
            ELSE Finish(Raised("TypeError", << "takes 2 positional arguments but 4 were given" >>))
       ELSE IF ValidateKwargs(unknown, IF o = "crawl_url_and_watch"
                                         THEN "async_crawl_url" ELSE o).outcome = "raised" THEN
          Finish(ValidateKwargs(unknown, IF o = "crawl_url_and_watch"
                                           THEN "async_crawl_url" ELSE o))
       ELSE
          /\ pc' = "submit"
          /\ UNCHANGED result
    /\ UNCHANGED << arg_interval, poll_interval, status_data, data, data_bound, normalized,
                    queries, fetches, sleeps, pages >>
    /\ UNCHANGED << posts, args, job_id >>
    /\ UNCHANGED << transportVars, watchVars, pairVars >>

\* `raise Exception("Batch scrape job failed to start")` sits inside the
\* `try` whose bare `except` raises the parse failure instead; the raise of
\* crawl_url_and_watch is outside any `try`.
FailedToStart(o) ==
    IF o = "crawl_url_and_watch"
      THEN Raised("Exception", << "Crawl job failed to start" >>)
      ELSE ParseFailure

\* CrawlResponse and BatchScrapeResponse come from firecrawl.types: a
\* field the body lacks either has the default the class declares
\* (success = True, id = None) or is no attribute of the object at all.
FieldDefaults == BOOLEAN

\* Reading a field that is no attribute of the response object: an
\* AttributeError, which inside the `try` of batch_scrape_urls_and_watch is
\* turned into the parse failure by its bare `except`.
NoAttribute(o, field) ==
    IF o = "crawl_url_and_watch"
      THEN Raised("AttributeError", << "object has no attribute ", field >>)
      ELSE ParseFailure

\* `if crawl_response.success and crawl_response.id:` on the parsed body and
\* what follows: the watcher is returned, or the factory raises.
FactoryOutcome(o, body, defaults) ==
    IF ~Has(body, "success") /\ ~defaults THEN NoAttribute(o, "success")
    ELSE IF Has(body, "success") /\ ~body.success THEN FailedToStart(o)
    ELSE IF Has(body, "id") THEN Returned(WatcherValue)
    ELSE IF defaults THEN FailedToStart(o)
    ELSE NoAttribute(o, "id")

\* The POST of a factory of FirecrawlApp and what follows: with a truthy
\* `success` and an `id`, `CrawlWatcher(crawl_response.id, self)` is built
\* and returned.
WatchFactory_Submit ==
    /\ op \in {"crawl_url_and_watch", "batch_scrape_urls_and_watch"}
    /\ pc = "submit"
    /\ posts' = posts + 1
    /\ \E a \in SubmitAnswers :
        IF a.code # 200 THEN
            /\ Finish(HandleError(a, IF op = "crawl_url_and_watch"
                                       THEN "start crawl job" ELSE "start batch scrape job"))
            /\ UNCHANGED << w_url, w_status, w_data, w_handlers >>
        ELSE IF ~a.json THEN
            /\ Finish(ParseFailure)
            /\ UNCHANGED << w_url, w_status, w_data, w_handlers >>
        ELSE \E defaults \in FieldDefaults :
            IF FactoryOutcome(op, a.body, defaults).outcome = "raised" THEN
                /\ Finish(FactoryOutcome(op, a.body, defaults))
                /\ UNCHANGED << w_url, w_status, w_data, w_handlers >>
            ELSE
                /\ WatcherInit
                /\ pc' = "setup"
                /\ result' = Returned(WatcherValue)
    /\ UNCHANGED << op, arg_interval, poll_interval, status_data, data, data_bound, normalized,
                    queries, fetches, sleeps, pages >>
    /\ UNCHANGED << entry, args, job_id >>
    /\ UNCHANGED << w_conn, w_msgs, w_pending, w_events >>
    /\ UNCHANGED << transportVars, pairVars >>

\* How connect ends when the socket closes: after a close by the peer
\* `async for` ends and connect returns, after a network failure the
\* iteration raises ConnectionClosedError, which nothing catches.
AfterClose(clean) == IF clean THEN "done" ELSE "dropped"

\* The socket closes while _listen waits for the next message.
Watcher_Close(clean) ==
    /\ op \in WatcherOps \cup WatchFactories
    /\ pc = "listen"
    /\ ReaderReady(w_pending)
    /\ pc' = AfterClose(clean)
    /\ UNCHANGED << op, watchVars >>
    /\ UNCHANGED << pollVars, transportVars, frontVars, pairVars >>

(***************************************************************************)
(* The specification.                                                      *)
(***************************************************************************)
\* The steps of the REST clients, FirecrawlApp and AsyncFirecrawlApp.
ClientNext ==
    \/ \E o \in IntervalOps, pi \in 0..MaxPoll : Call(o, pi)
    \/ \E o \in FixedOps : Call(o, 0)
    \/ Monitor_Query
    \/ Monitor_NextPage
    \/ Monitor_Return
    \/ AsyncMonitor_Query
    \/ AsyncMonitor_NextPage
    \/ AsyncMonitor_Return
    \/ CheckCrawlStatus_Query
    \/ CheckCrawlStatus_NextPage
    \/ CheckCrawlStatus_Return
    \/ AsyncCheckCrawlStatus_Query
    \/ AsyncCheckCrawlStatus_NextPage
    \/ AsyncCheckCrawlStatus_Return
    \/ CheckBatch_Query
    \/ CheckBatch_Poll
    \/ CheckBatch_NextPage
    \/ CheckBatch_Return
    \/ AsyncCheckBatch_Query
    \/ AsyncCheckBatch_Poll
    \/ AsyncCheckBatch_NextPage
    \/ AsyncCheckBatch_EndPages
    \/ AsyncCheckBatch_Return
    \/ Extract_Query
    \/ AsyncExtract_Query
    \/ \E m \in TransportOps, r \in 0..MaxRetries, b \in BackoffFactors :
          \E d \in BodiesOf(m) : Transport_Call(m, r, b, d)
    \/ \E c \in TransportCodes : Transport_Attempt(c)
    \/ \E r \in 0..MaxRetries, b \in BackoffFactors, d \in RequestBodies :
          AsyncTransport_Call(r, b, d)
    \/ \E o \in BatchScrapeOps, pi \in {DefaultPollInterval}, unknown \in BOOLEAN :
          BatchScrape_Call(o, pi, unknown)
    \/ BatchScrape_Submit
    \/ AsyncBatchScrape_Submit
    \/ \E pi \in {DefaultPollInterval}, unknown \in BOOLEAN : Crawl_Call(pi, unknown)
    \/ Crawl_Submit
    \/ \E o \in ExtractOps, a \in ExtractArgs : Extract_Call(o, a)
    \/ Extract_Submit
    \/ AsyncExtract_Submit
    \/ \E a \in ExtractArgs : StartExtract_Call(a)
    \/ StartExtract_Submit
    \/ \E a \in ExtractArgs, assignable \in BOOLEAN : AsyncStartExtract_Call(a, assignable)
    \/ AsyncStartExtract_Submit
    \/ \E o \in AsyncSubmitOps, pi \in {DefaultPollInterval}, unknown \in BOOLEAN :
          AsyncSubmit_Call(o, pi, unknown)
    \/ AsyncCrawl_Submit
    \/ AsyncStart_Submit
    \/ \E o \in {"scrape_url", "search"}, c \in TranslatedCodes, j \in BOOLEAN,
             ks \in SUBSET {"error", "details"} : HandleError_Call(o, c, j, ks)
    \/ \E c \in TransportCodes :
          \E j \in (IF c < 300 THEN JsonOutcomes ELSE {"parsed"}) : AsyncTransport_Attempt(c, j)

\* The steps of a watcher, CrawlWatcher or AsyncCrawlWatcher, and of the
\* operations that start a job and hand back a watcher for it.
WatchNext ==
    \/ \E c \in WatcherOps : Watcher_New(c)
    \/ \E o \in WatchFactories, unknown \in BOOLEAN : WatchFactory_Call(o, unknown)
    \/ WatchFactory_Submit
    \/ \E t \in EventTypes \cup {"progress"} : Watcher_AddListener(t)
    \/ Watcher_Connect
    \/ Watcher_Receive
    \/ \E k \in 0..MaxListeners : Watcher_Dispatch(k)
    \/ \E clean \in BOOLEAN : Watcher_Close(clean)

Next == ClientNext \/ WatchNext

Spec == Init /\ [][Next]_vars

\* The crawl pollers on their own: the two monitors and the two single status
\* checks, called with the default poll interval.
WalkOps == {"_monitor_job_status", "_async_monitor_job_status",
            "check_crawl_status", "AsyncFirecrawlApp.check_crawl_status"}

WalkNext ==
    \/ \E o \in WalkOps \cap IntervalOps : Call(o, DefaultPollInterval)
    \/ \E o \in WalkOps \cap FixedOps : Call(o, 0)
    \/ Monitor_Query
    \/ Monitor_NextPage
    \/ Monitor_Return
    \/ AsyncMonitor_Query
    \/ AsyncMonitor_NextPage
    \/ AsyncMonitor_Return
    \/ CheckCrawlStatus_Query
    \/ CheckCrawlStatus_NextPage
    \/ CheckCrawlStatus_Return
    \/ AsyncCheckCrawlStatus_Query
    \/ AsyncCheckCrawlStatus_NextPage
    \/ AsyncCheckCrawlStatus_Return

\* A call that is running takes its next step: the code is sequential and
\* every request of the model is answered.
WalkSpec == Init /\ [][WalkNext]_vars /\ WF_vars(WalkNext)

(***************************************************************************)
(* Two monitor calls for two jobs on one instance, interleaved.  Everything *)
(* a monitor works on is a parameter or a local of the call (id, headers,   *)
(* poll_interval, status_data, data, next_url); of the instance it reads    *)
(* api_url only.  The running call holds the poller variables, the other    *)
(* call's locals are kept in `suspended`; documents are numbered within     *)
(* their job.                                                               *)
(***************************************************************************)
\* The two wait-to-completion loops of a crawl.
PairOps == {"_monitor_job_status", "_async_monitor_job_status"}

\* The locals of the running call.
Running ==
    [op |-> op, pc |-> pc, arg_interval |-> arg_interval, poll_interval |-> poll_interval,
     status_data |-> status_data, data |-> data, data_bound |-> data_bound,
     normalized |-> normalized, queries |-> queries, fetches |-> fetches,
     sleeps |-> sleeps, pages |-> pages, result |-> result]

\* Mutant of Accumulated: the list is kept on the instance, so that a call
\* resumes with what the other call left in it.
Accumulated_Shared(own, other) == other

\* `data = status_data['data']`: the accumulated list is a local of the call,
\* which a resumed call finds as it left it.
Accumulated(own, other) == own

\* The scheduler (threads) or the event loop (coroutines, at a sleep or a
\* network call) lets the other call run.
Switch ==
    /\ op \in PairOps \/ suspended.op \in PairOps
    /\ suspended' = Running
    /\ op' = suspended.op
    /\ pc' = suspended.pc
    /\ arg_interval' = suspended.arg_interval
    /\ poll_interval' = suspended.poll_interval
    /\ status_data' = suspended.status_data
    /\ data' = Accumulated(suspended.data, data)
    /\ data_bound' = suspended.data_bound
    /\ normalized' = suspended.normalized
    /\ queries' = suspended.queries
    /\ fetches' = suspended.fetches
    /\ sleeps' = suspended.sleeps
    /\ pages' = suspended.pages
    /\ result' = suspended.result
    /\ UNCHANGED << transportVars, frontVars, watchVars >>

\* The poll intervals the two callers pass.
PairIntervals == {DefaultPollInterval, DefaultPollInterval + 1}

\* Both calls are made on the same instance, hence to the same method; the
\* two callers pass different intervals.
PairCall(o, pi) == Call(o, pi) /\ suspended.op \in {"idle", o} /\ suspended.arg_interval # pi

\* The answers of the service to the two jobs: a job that is running, a
\* job that is completed, with one document or a full page of them on every
\* page, or one that is gone (404).
PairAnswer(a) ==
    \/ a = Answer(404, TRUE, ErrBody)
    \/ a = Answer(200, TRUE, PageBody(1, "scraping", FALSE, 0, "absent", FALSE, 1))
    \/ /\ a.code = 200 /\ a.json
       /\ a.body.status = "completed"
       /\ Has(a.body, "data") /\ Len(a.body.data) \in {1, MaxDocs}
       /\ Has(a.body, "next") => a.body.next # 0

\* A step of the running call in which the service answers as above.
PairStep(A) == A /\ (pages' # << >> => PairAnswer(pages'[Len(pages')]))

PairNext ==
    \/ \E o \in PairOps, pi \in PairIntervals : PairCall(o, pi)
    \/ Switch
    \/ PairStep(Monitor_Query)
    \/ PairStep(Monitor_NextPage)
    \/ PairStep(Monitor_Return)
    \/ PairStep(AsyncMonitor_Query)
    \/ PairStep(AsyncMonitor_NextPage)
    \/ PairStep(AsyncMonitor_Return)

PairSpec == Init /\ [][PairNext]_vars

(***************************************************************************)
(* The two crawl monitors side by side: _monitor_job_status and             *)
(* _async_monitor_job_status are called with the same poll interval and are *)
(* sent the same answers, the async one following the sync one answer by    *)
(* answer.                                                                  *)
(***************************************************************************)
\* The answers call f has received: one for each request it has issued.
Received(f) == f.queries + f.fetches

\* One call of each monitor, with the same poll interval.
TwinCall(o, pi) ==
    /\ Call(o, pi)
    /\ suspended.op # o
    /\ suspended.op # "idle" => suspended.arg_interval = pi

\* A step of the running monitor once both are called.  A step that issues
\* a request: the sync monitor issues its next request when the async one
\* has caught up, the async monitor is sent the answer the sync one received
\* to its request of the same position.
TwinStep(A) ==
    /\ suspended.op \in PairOps
    /\ A
    /\ \/ queries' + fetches' = queries + fetches
       \/ /\ op = "_monitor_job_status"
          /\ Received(suspended) = queries + fetches
       \/ /\ op = "_async_monitor_job_status"
          /\ Received(suspended) = queries + fetches + 1
          /\ pages'[Len(pages')] = suspended.pages[Len(suspended.pages)]

TwinNext ==
    \/ \E o \in PairOps : TwinCall(o, DefaultPollInterval)
    \/ Switch
    \/ TwinStep(Monitor_Query)
    \/ TwinStep(Monitor_NextPage)
    \/ TwinStep(Monitor_Return)
    \/ TwinStep(AsyncMonitor_Query)
    \/ TwinStep(AsyncMonitor_NextPage)
    \/ TwinStep(AsyncMonitor_Return)

TwinSpec == Init /\ [][TwinNext]_vars

\* The first step of a behaviour picks the operation, and no step leads from
\* an operation of one part to an operation of the other or back to idle:
\* a behaviour of Spec is a behaviour of ClientSpec or of WatchSpec, and the
\* states Spec reaches are those the two reach.
ClientSpec == Init /\ [][ClientNext]_vars

WatchSpec == Init /\ [][WatchNext]_vars


(***************************************************************************)
(* Vocabulary of the properties.                                           *)
(***************************************************************************)
Monitors == {"_monitor_job_status", "_async_monitor_job_status"}
BatchChecks == {"check_batch_scrape_status", "async_check_batch_scrape_status"}
ExtractLoops == {"extract", "async_extract"}
SyncStatusChecks == {"check_crawl_status", "check_batch_scrape_status"}

\* The last status query was answered 200 with a JSON body.
StatusAnswered == pages # << >> /\ pages[1].code = 200 /\ pages[1].json
LastStatus == pages[1].body.status

\* A status that is neither 'completed' nor an in-progress value.
IsOtherStatus(s) == s \notin InProgress \cup {"completed"}

\* Answer i of the current walk is a page that arrived intact.
PageIntact(i) == pages[i].code = 200 /\ pages[i].json
AllIntact == \A i \in 1..Len(pages) : PageIntact(i)

\* The returned scalar fields are those of body b.
ScalarsOf(v, b) ==
    /\ v.status = b.status
    /\ v.total = b.total
    /\ v.completed = b.completed
    /\ v.creditsUsed = b.creditsUsed
    /\ v.expiresAt = b.expiresAt

\* C1: in the crawl monitors, after a 200 status answer an in-progress status
\* leaves the poller asleep-and-about-to-query-again with one sleep per query
\* so far; 'completed' with data leads into the page walk and, when the page
\* has no next key, to a successful return of that page; any other status
\* ends the wait with an error whose message carries the status string.
C1_MonitorClassifies ==
    (op \in Monitors /\ StatusAnswered) =>
        /\ LastStatus \in InProgress =>
              /\ pc = "query"
              /\ result.outcome = "none"
              /\ Len(sleeps) = queries
        /\ (LastStatus = "completed" /\ Has(pages[1].body, "data")) =>
              /\ pc \in {"paginate", "done"}
              /\ "Crawl job failed or was stopped. Status: " \notin Range(result.msg)
              /\ "Job failed or was stopped. Status: " \notin Range(result.msg)
              /\ (pc = "done" /\ ~Has(pages[1].body, "next")) =>
                    /\ result.outcome = "returned"
                    /\ result.value.status = "completed"
                    /\ result.value.data = pages[1].body.data
        /\ IsOtherStatus(LastStatus) =>
              /\ pc = "done"
              /\ result.outcome = "raised"
              /\ LastStatus \in Range(result.msg)

\* C1 witness: a monitor that polled through an in-progress answer and then
\* failed on an unrecognized status.
C1_Witness ==
    /\ op \in Monitors
    /\ queries >= 2
    /\ StatusAnswered
    /\ LastStatus = "stalled"
    /\ result.outcome = "raised"

\* C2: in the batch status checks, a status answer that is neither
\* 'completed' nor in progress ends the wait with an error carrying the
\* status string.
C2_BatchFailsOnOtherStatus ==
    (op \in BatchChecks /\ StatusAnswered /\ IsOtherStatus(LastStatus)) =>
        /\ pc = "done"
        /\ result.outcome = "raised"
        /\ LastStatus \in Range(result.msg)

\* C3: in the extract loops 'completed' returns the result and
\* every status that is neither 'completed' nor in progress, unrecognized
\* strings included, ends the loop with an error instead of another query;
\* the error carries that status (required here only of a body that has an
\* error field for the message to format).
C3_ExtractFailsOnOtherStatus ==
    (op \in ExtractLoops /\ StatusAnswered) =>
        /\ LastStatus = "completed" =>
              /\ pc = "done"
              /\ result.outcome = "returned"
        /\ IsOtherStatus(LastStatus) =>
              /\ pc = "done"
              /\ result.outcome = "raised"
              /\ Has(pages[1].body, "error") => LastStatus \in Range(result.msg)

\* C4: every sleep of the crawl monitors lasts max(poll_interval, 2) seconds
\* for the poll_interval the caller passed, hence at least 2, and there is
\* one sleep between any two consecutive status queries.
C4_MonitorFloor ==
    op \in Monitors =>
        /\ \A i \in 1..Len(sleeps) :
              /\ sleeps[i] = Max(arg_interval, 2)
              /\ sleeps[i] >= 2
        /\ queries >= 1 => Len(sleeps) >= queries - 1

\* C4 witness: a monitor called with poll_interval 0 that slept twice.
C4_Witness ==
    /\ op \in Monitors
    /\ arg_interval = 0
    /\ Len(sleeps) = 2
    /\ queries = 3

\* C5: no sleep of the batch status checks is shorter than 2 seconds.
C5_BatchFloor ==
    op \in BatchChecks => \A i \in 1..Len(sleeps) : sleeps[i] >= 2

\* C6: when a synchronous poller returns after a walk in which every answer
\* arrived intact, the pages were fetched in chain order, the documents are
\* the concatenation of the fetched pages' documents (the ids 1..n, each
\* once, in order), and the scalar fields are those of the last page fetched.
C6_SyncAggregation ==
    ( /\ op \in {"_monitor_job_status"} \cup SyncStatusChecks
      /\ pc = "done"
      /\ result.outcome = "returned"
      /\ AllIntact ) =>
        /\ \A i \in 1..Len(pages) : pages[i].body.total = i
        /\ result.value.data = ConcatData(pages)
        /\ result.value.data = [i \in 1..Len(result.value.data) |-> i]
        /\ ScalarsOf(result.value, pages[Len(pages)].body)
        /\ pages[1].body.status = "completed"

\* C6 witness: a synchronous poller returned the documents of a three-page chain.
C6_Witness ==
    /\ op \in {"_monitor_job_status"} \cup SyncStatusChecks
    /\ pc = "done"
    /\ result.outcome = "returned"
    /\ AllIntact
    /\ Len(pages) = 3
    /\ Len(pages[3].body.data) >= 1
    /\ Len(result.value.data) >= 3

\* C7: the async batch status check, given a completed page [a,b] whose next
\* URL yields [c] and no further URL, returns [a,b,c] with the scalar fields
\* of the last page fetched.
C7_AsyncBatchAggregation ==
    ( /\ op = "async_check_batch_scrape_status"
      /\ pc = "done"
      /\ StatusAnswered
      /\ LastStatus = "completed"
      /\ pages[1].body.data = << 1, 2 >>
      /\ pages[1].body.next = 2
      /\ Len(pages) >= 2 =>
            /\ Len(pages) = 2
            /\ PageIntact(2)
            /\ pages[2].body.status = "completed"
            /\ pages[2].body.data = << 3 >>
            /\ ~Has(pages[2].body, "next") ) =>
        /\ result.outcome = "returned"
        /\ result.value.data = << 1, 2, 3 >>
        /\ ScalarsOf(result.value, pages[Len(pages)].body)

\* Answer k of the walk is a next-page fetch that failed.
PageFailed(k) == k >= 2 /\ k <= Len(pages) /\ ~PageIntact(k)

\* C8: in the synchronous status checks a failed next-page fetch (non-200 or
\* unparseable) is the last fetch of the walk, nothing is raised, and the
\* result holds the documents accumulated before it with the scalar fields
\* of the last page that was fetched successfully.
C8_SyncPartialPagination ==
    \A k \in 2..MaxPages :
        (op \in SyncStatusChecks /\ PageFailed(k)) =>
            /\ k = Len(pages)
            /\ pc \in {"build", "done"}
            /\ result.outcome # "raised"
            /\ pc = "done" =>
                  /\ result.outcome = "returned"
                  /\ result.value.data = ConcatData(SubSeq(pages, 1, k - 1))
                  /\ ScalarsOf(result.value, pages[k - 1].body)

\* C8 witness: a status check returned [a,b] after the fetch of the second
\* page came back 404.
C8_Witness ==
    /\ op \in SyncStatusChecks
    /\ pc = "done"
    /\ Len(pages) = 2
    /\ pages[2].code = 404
    /\ result.outcome = "returned"
    /\ result.value.data = << 1, 2 >>

\* C9: in the crawl monitors a next-page fetch that comes back non-200 ends
\* the walk with a completed result holding the documents of the pages
\* fetched before it; nothing is raised and the failed answer's body does
\* not replace the status and scalar fields.
C9_MonitorPartialPagination ==
    \A k \in 2..MaxPages :
        (op \in Monitors /\ pc = "done" /\ PageFailed(k) /\ pages[k].code # 200) =>
            /\ result.outcome = "returned"
            /\ result.value.data = ConcatData(SubSeq(pages, 1, k - 1))
            /\ ScalarsOf(result.value, pages[k - 1].body)

\* The number of 502 answers among the responses received.
Count502 == Cardinality({ i \in 1..Len(t_log) : t_log[i].code = 502 })

\* The delays of the default backoff factor, in milliseconds.
DefaultDelays == << 500, 1000, 2000 >>

\* C10: the sync transport asks again only after a 502: every response but
\* the last is a 502, there is one sleep per 502 received and the k-th
\* (from 0) lasts backoff_factor * 2^k (500, 1000, 2000 ms by default); a
\* non-502 response on attempt N <= retries ends the call with exactly N
\* attempts made and that very response returned.
C10_TransportRetry ==
    op \in TransportOps =>
        /\ \A i \in 1..(Len(t_log) - 1) : t_log[i].code = 502
        /\ Len(t_sleeps) = Count502
        /\ \A k \in 0..(Len(t_sleeps) - 1) :
              /\ t_sleeps[k + 1] = t_backoff * (2 ^ k)
              /\ (t_backoff = 500 /\ k < 3) => t_sleeps[k + 1] = DefaultDelays[k + 1]
        /\ Len(t_log) <= t_retries
        /\ (t_log # << >> /\ t_log[Len(t_log)].code # 502) =>
              /\ pc = "done"
              /\ t_result.outcome = "returned"
              /\ t_result.response = t_log[Len(t_log)]
              /\ t_result.response.serial = Len(t_log)
              /\ Len(t_sleeps) = Len(t_log) - 1

\* C10 witness: two 502s, then a 404 on the third attempt, with the default backoff.
C10_Witness ==
    /\ op = "_get_request"
    /\ pc = "done"
    /\ t_backoff = 500
    /\ Len(t_log) = 3
    /\ t_log[3].code = 404
    /\ t_sleeps = << 500, 1000 >>
    /\ t_result.response = [code |-> 404, serial |-> 3]

\* Every response received so far by the running transport call was a 502.
All502 == t_log # << >> /\ \A i \in 1..Len(t_log) : t_log[i].code = 502

\* C11: a sync transport call never makes more than `retries` attempts; while
\* every response has been a 502 it keeps asking until `retries` attempts are
\* made, and then the call ends by returning the last 502 response, nothing
\* being raised.
C11_SyncExhaustion ==
    op \in TransportOps =>
        /\ Len(t_log) <= t_retries
        /\ All502 =>
              IF Len(t_log) < t_retries
                THEN /\ pc = "attempt"
                     /\ t_result.outcome = "none"
                ELSE /\ pc = "done"
                     /\ Len(t_log) = t_retries
                     /\ Len(t_sleeps) = t_retries
                     /\ t_result.outcome = "returned"
                     /\ t_result.response = t_log[Len(t_log)]
                     /\ t_result.response.code = 502

\* C11 witness: a POST with three attempts allowed received three 502s and
\* returned the third.
C11_Witness ==
    /\ op = "_post_request"
    /\ t_retries = 3
    /\ Len(t_log) = 3
    /\ All502
    /\ pc = "done"
    /\ t_result = [outcome |-> "returned", response |-> [code |-> 502, serial |-> 3]]

\* C12: an async transport call that ended after nothing but 502s
\* made exactly `retries` attempts and returned the final 502 response.
C12_AsyncExhaustionReturns ==
    (op = "_async_request" /\ pc = "done" /\ All502) =>
        /\ Len(t_log) = t_retries
        /\ t_result.outcome = "returned"
        /\ t_result.response = t_log[Len(t_log)]

\* C13: in the async transport a response whose status is non-2xx and not
\* 502 ends the call: it is the last response received, it is surfaced to
\* the caller, and no sleep follows it.
C13_AsyncNoRetryOnError ==
    \A i \in 1..Len(t_log) :
        (op = "_async_request" /\ t_log[i].code >= 300 /\ t_log[i].code # 502) =>
            /\ i = Len(t_log)
            /\ pc = "done"
            /\ t_result.outcome = "ClientError"
            /\ Len(t_sleeps) = i - 1

\* The last status answer was 'completed' with two documents and no next URL.
CompletedTwoDocs ==
    /\ StatusAnswered
    /\ LastStatus = "completed"
    /\ Has(pages[1].body, "data")
    /\ pages[1].body.data = << 1, 2 >>
    /\ ~Has(pages[1].body, "next")

\* C14: in a batch_scrape_urls call (sync or async) whose submission
\* succeeded, a first status answer 'scraping' keeps the operation waiting
\* for a second query; when the second answer is 'completed' with two
\* documents and no next URL, one sleep lies between the two queries, no
\* page is fetched, no further status query can follow, and the operation
\* returns status 'completed' with exactly those two documents in order.
C14_EndToEndBatch ==
    (entry \in BatchScrapeOps /\ op \in BatchChecks) =>
        /\ posts = 1
        /\ (queries = 1 /\ StatusAnswered /\ LastStatus = "scraping") =>
              /\ pc \in {"poll", "loop"}
              /\ BatchKeepsPolling(GetStatus(status_data))
              /\ result.outcome = "none"
              /\ sleeps = << >>
        /\ (queries = 2 /\ CompletedTwoDocs) =>
              /\ Len(sleeps) = 1
              /\ fetches = 0
              /\ status_data = pages[1].body
              /\ pc \in {"paginate", "loop", "done"}
              /\ pc = "done" =>
                    /\ result.outcome = "returned"
                    /\ result.value.status = "completed"
                    /\ result.value.data = << 1, 2 >>

\* C14 witness: the async batch_scrape_urls returned the two documents after
\* two status queries.
C14_Witness ==
    /\ entry = "AsyncFirecrawlApp.batch_scrape_urls"
    /\ op = "async_check_batch_scrape_status"
    /\ posts = 1
    /\ queries = 2
    /\ CompletedTwoDocs
    /\ pc = "done"
    /\ result.outcome = "returned"
    /\ result.value.data = << 1, 2 >>

\* The caller passed neither prompt nor schema, or neither urls nor prompt.
MissingArgs == (~args.prompt /\ ~args.schema) \/ (~args.urls /\ ~args.prompt)

\* C19: a call of extract (sync or async) with neither prompt nor schema, or
\* with neither urls nor prompt, ends at once with a ValueError naming the
\* missing arguments, and no HTTP request is issued for it: no submission
\* POST, no status GET.
C19_ExtractValidatesFirst ==
    (entry \in ExtractOps /\ MissingArgs) =>
        /\ pc = "done"
        /\ result.outcome = "raised"
        /\ result.exc = "ValueError"
        /\ result.msg = IF ~args.prompt /\ ~args.schema
                          THEN << "Either prompt or schema is required" >>
                          ELSE << "Either urls or prompt is required" >>
        /\ posts = 0
        /\ queries = 0
        /\ fetches = 0

\* C19 witness: the async extract called with urls alone has raised.
C19_Witness ==
    /\ entry = "async_extract"
    /\ args = [urls |-> TRUE, prompt |-> FALSE, schema |-> FALSE]
    /\ pc = "done"
    /\ result.exc = "ValueError"
    /\ posts = 0

\* The two operations that start an extraction without waiting for it.
StartExtractOps == {"FirecrawlApp.async_extract", "AsyncFirecrawlApp.async_extract"}

\* C20: a call of async_extract (of FirecrawlApp or of AsyncFirecrawlApp)
\* with neither prompt nor schema issues no POST, and ends with a
\* validation error.
C20_StartExtractValidatesFirst ==
    (entry \in StartExtractOps /\ ~args.prompt /\ ~args.schema) =>
        /\ posts = 0
        /\ pc = "done" =>
              /\ result.outcome = "raised"
              /\ result.msg = << "Either prompt or schema is required" >>

\* The watcher has read its n-th message and made every dispatch for it.
Handled(n) == Len(w_msgs) >= n /\ (Len(w_msgs) > n \/ w_pending = << >>)

\* The dispatch_event calls made for message n, in order.
EventsOf(n) == SelectSeq(w_events, LAMBDA e : e.serial = n)

\* The documents carried by a sequence of document events, in order.
DocsOf(events) == [i \in 1..Len(events) |-> events[i].doc]

RECURSIVE DataUpTo(_)
\* The documents accumulated from the first n messages.
DataUpTo(n) == IF n = 0 THEN << >> ELSE DataAfter(DataUpTo(n - 1), w_msgs[n])

\* C15: once a catchup message (the n-th read) is handled, the status it set
\* is its embedded status, the accumulated documents are the earlier ones
\* followed by the embedded ones, and the dispatches made for it are document
\* events only, one for every accumulated document (earlier and new) in
\* accumulated order, each carrying that document and the job id; so a
\* catchup with 3 documents read by a fresh session yields exactly 3.
C15_CatchupReplay ==
    \A n \in 1..Len(w_msgs) :
        (op \in WatcherOps /\ w_msgs[n].type = "catchup" /\ Handled(n)) =>
            LET events == EventsOf(n)
                docs == DataUpTo(n)
            IN
            /\ docs = DataUpTo(n - 1)
                        \o (IF w_msgs[n].hasData THEN w_msgs[n].docs ELSE << >>)
            /\ \A i \in 1..Len(events) :
                  /\ events[i].event = "document"
                  /\ events[i].keys = {"data", "id"}
                  /\ events[i].id = JobId
            /\ DocsOf(events) = docs
            /\ n = Len(w_msgs) =>
                  /\ w_status = w_msgs[n].status
                  /\ w_data = docs
            /\ (n = 1 /\ w_msgs[n].hasData /\ Len(w_msgs[n].docs) = 3) =>
                  DocsOf(events) = << 1, 2, 3 >>

\* C15 witness: a session that had one document read a catchup with three
\* more and replayed all four to its document listener.
C15_Witness ==
    /\ op \in WatcherOps
    /\ Len(w_msgs) = 2
    /\ w_msgs[1].type = "document"
    /\ w_msgs[2].type = "catchup"
    /\ w_msgs[2].docs = << 2, 3, 4 >>
    /\ w_pending = << >>
    /\ DocsOf(EventsOf(2)) = << 1, 2, 3, 4 >>
    /\ w_handlers["document"] = << 1 >>
    /\ w_events[Len(w_events)].calls = << 1 >>

\* The event types _handle_message dispatches for a message type.
EventTypeOf(type) == IF type = "catchup" THEN "document" ELSE type

\* C16: messages are handled one at a time in arrival order: every dispatch
\* still to be made belongs to the message read last, the dispatches made so
\* far are ordered by message number, the events of each handled message are
\* exactly those its handling calls for, and so the inbound sequence
\* document(a), document(b), done is observed as document(a), document(b),
\* done.
C16_EventOrder ==
    op \in WatcherOps =>
        /\ \A i \in 1..Len(w_pending) : w_pending[i].serial = Len(w_msgs)
        /\ \A i \in 1..(Len(w_events) - 1) :
              w_events[i].serial <= w_events[i + 1].serial
        /\ \A i \in 1..Len(w_events) :
              /\ w_events[i].serial \in 1..Len(w_msgs)
              /\ w_events[i].event = EventTypeOf(w_msgs[w_events[i].serial].type)
        /\ \A n \in 1..Len(w_msgs) :
              (Handled(n) /\ w_msgs[n].type \in {"done", "error", "document"}) =>
                  Len(EventsOf(n)) = 1
        /\ ( /\ Len(w_msgs) = 3
             /\ w_msgs[1].type = "document"
             /\ w_msgs[2].type = "document"
             /\ w_msgs[3].type = "done"
             /\ w_pending = << >> ) =>
              /\ Len(w_events) = 3
              /\ w_events[1].event = "document" /\ w_events[1].doc = w_msgs[1].docs[1]
              /\ w_events[2].event = "document" /\ w_events[2].doc = w_msgs[2].docs[1]
              /\ w_events[3].event = "done"

\* C16 witness: document(a), document(b), done were read and dispatched.
C16_Witness ==
    /\ op \in WatcherOps
    /\ Len(w_msgs) = 3
    /\ w_msgs[1].type = "document"
    /\ w_msgs[2].type = "document"
    /\ w_msgs[3].type = "done"
    /\ w_pending = << >>
    /\ Len(w_events) = 3
    /\ w_events[1].doc = 1
    /\ w_events[2].doc = 2
    /\ w_events[3].event = "done"
    /\ w_handlers["document"] = << 1 >>

\* The done event has been dispatched to the listeners.
DoneDispatched == \E i \in 1..Len(w_events) : w_events[i].event = "done"

\* C17 as claimed: the session status is 'completed' only in states where
\* the done event has been dispatched.
C17_CompletedOnlyAfterDone ==
    (op \in WatcherOps /\ w_status = "completed") => DoneDispatched

\* The last message read that sets the status, 0 when there is none.
LastSetter ==
    LET S == { n \in 1..Len(w_msgs) : w_msgs[n].type \in {"done", "error", "catchup"} }
    IN IF S = {} THEN 0 ELSE CHOOSE n \in S : \A m \in S : m <= n

\* C17 as amended: the session status is 'completed' exactly when the last
\* status-setting message read is a done message or a catchup whose embedded
\* status is 'completed'; a new session is 'scraping'; the status is set
\* before the done event is dispatched, so the done event carries
\* 'completed' and its listeners run while the status is already
\* 'completed'.
C17_CompletedFromDoneMessage ==
    op \in WatcherOps =>
        /\ w_status = "completed" <=>
              /\ LastSetter # 0
              /\ \/ w_msgs[LastSetter].type = "done"
                 \/ /\ w_msgs[LastSetter].type = "catchup"
                    /\ w_msgs[LastSetter].status = "completed"
        /\ w_msgs = << >> => w_status = "scraping"
        /\ \A i \in 1..Len(w_pending) :
              w_pending[i].event = "done" =>
                  /\ w_status = "completed"
                  /\ w_pending[i].status = "completed"
        /\ \A i \in 1..Len(w_events) :
              w_events[i].event = "done" =>
                  /\ w_events[i].seen = "completed"
                  /\ w_events[i].status = "completed"

\* C17 witness: a done message was read after a document, the status is
\* 'completed' and the done event is still to be dispatched.
C17_Witness ==
    /\ op \in WatcherOps
    /\ Len(w_msgs) = 2
    /\ w_msgs[1].type = "document"
    /\ w_msgs[2].type = "done"
    /\ w_status = "completed"
    /\ Len(w_pending) = 1
    /\ w_pending[1].event = "done"
    /\ ~DoneDispatched

\* The step reads a message.
Reads == op \in WatcherOps /\ Len(w_msgs') = Len(w_msgs) + 1

\* C18: reading a done message sets the status to 'completed', leaves the
\* accumulated documents alone and calls for one done event carrying
\* {status, the accumulated documents, job id}; an error message does the
\* same with 'failed' and an error event that also carries the message's
\* error; a document message appends that one document, leaves the status
\* alone and calls for one document event carrying it; and each dispatch
\* hands the listeners the event as called for.
C18_MessageEffects ==
    [][ /\ Reads =>
            LET msg == w_msgs'[Len(w_msgs')] IN
            /\ msg.type = "done" =>
                  /\ w_status' = "completed"
                  /\ w_data' = w_data
                  /\ Len(w_pending') = 1
                  /\ w_pending'[1].event = "done"
                  /\ w_pending'[1].keys = {"status", "data", "id"}
                  /\ w_pending'[1].status = "completed"
                  /\ w_pending'[1].data = w_data
                  /\ w_pending'[1].id = JobId
            /\ msg.type = "error" =>
                  /\ w_status' = "failed"
                  /\ w_data' = w_data
                  /\ Len(w_pending') = 1
                  /\ w_pending'[1].event = "error"
                  /\ w_pending'[1].keys = {"status", "data", "error", "id"}
                  /\ w_pending'[1].status = "failed"
                  /\ w_pending'[1].data = w_data
                  /\ w_pending'[1].error = msg.error
                  /\ w_pending'[1].id = JobId
            /\ msg.type = "document" =>
                  /\ w_status' = w_status
                  /\ w_data' = Append(w_data, msg.docs[1])
                  /\ Len(w_pending') = 1
                  /\ w_pending'[1].event = "document"
                  /\ w_pending'[1].doc = msg.docs[1]
                  /\ w_pending'[1].id = JobId
        /\ (op \in WatcherOps /\ Len(w_events') = Len(w_events) + 1) =>
            /\ w_pending # << >>
            /\ w_pending' = Tail(w_pending)
            /\ w_status' = w_status
            /\ w_data' = w_data
            /\ [w_events'[Len(w_events')] EXCEPT !.calls = << >>, !.raised = NoHandler, !.seen = ""]
                  = Head(w_pending)
            /\ w_events'[Len(w_events')].raised = NoHandler =>
                  w_events'[Len(w_events')].calls = w_handlers[Head(w_pending).event]
      ]_vars

\* C18 witness: after two documents a done event carrying both was
\* dispatched to a done listener, and the documents are still there.
C18_Witness ==
    /\ op \in WatcherOps
    /\ Len(w_msgs) = 3
    /\ w_msgs[3].type = "done"
    /\ w_data = << 1, 2 >>
    /\ w_status = "completed"
    /\ w_pending = << >>
    /\ w_events[Len(w_events)].event = "done"
    /\ w_events[Len(w_events)].data = << 1, 2 >>
    /\ w_events[Len(w_events)].calls = << 1 >>

\* The loops that wait for a job to complete.
WaitLoops == Monitors \cup BatchChecks \cup ExtractLoops

\* C21: in a wait-to-completion loop that has already queried at least once,
\* a status answer 'cancelled' ends the loop with a raised error on that very
\* query, so that no further status query is issued.
C21_CancellationObserved ==
    (op \in WaitLoops /\ queries >= 2 /\ StatusAnswered /\ LastStatus = "cancelled") =>
        /\ pc = "done"
        /\ result.outcome = "raised"

\* The submitting operations of AsyncFirecrawlApp.
AsyncSubmissions == AsyncSubmitOps \cup {"AsyncFirecrawlApp.batch_scrape_urls"}

\* C22: a submitting operation of AsyncFirecrawlApp (crawl_url,
\* async_crawl_url, batch_scrape_urls, async_batch_scrape_urls) that ends at
\* its submission either raises or returns the body that reported success;
\* it never returns None.
C22_NoSilentFailure ==
    (entry \in AsyncSubmissions /\ pc = "done" /\ queries = 0) =>
        \/ result.outcome = "raised"
        \/ /\ result.outcome = "returned"
           /\ result.value # NoneValue
           /\ Succeeded(result.value)

CrawlStatusChecks == {"check_crawl_status", "AsyncFirecrawlApp.check_crawl_status"}

\* C23: a check_crawl_status call (sync or async) whose one status query was
\* answered 200 with a JSON body, and which fetched no further page, ends by
\* returning a response that carries the reported status, whatever that
\* status is and whether or not the body has a data field; nothing is raised.
C23_SingleShotStatus ==
    (op \in CrawlStatusChecks /\ pc = "done" /\ StatusAnswered /\ Len(pages) = 1) =>
        /\ queries = 1
        /\ result.outcome = "returned"
        /\ result.value.status = LastStatus

\* The path of the socket the spec gives a watcher, by the factory that made it.
WatchPath(o) ==
    IF o \in {"crawl_url_and_watch", "AsyncFirecrawlApp.crawl_url_and_watch"}
      THEN "/v1/crawl/"
      ELSE "/v1/batch/scrape/"

\* C24: a watcher made by crawl_url_and_watch connects to
\* {ws base}/v1/crawl/{jobId} and one made by batch_scrape_urls_and_watch to
\* {ws base}/v1/batch/scrape/{jobId}, both with the Authorization header
\* of the REST calls.
C24_WatcherEndpoint ==
    (entry \in WatchFactories /\ w_conn # NoConnection) =>
        /\ w_conn.url = ReplaceHttp(ApiUrl) \o << WatchPath(entry), JobId >>
        /\ w_conn.auth = PrepareHeaders.Authorization

\* C25: the error _handle_error raises for a non-2xx response with a JSON
\* body is an HTTPError whose message holds the status code, the attempted
\* action, the server's error string and the server's details string (the
\* stock texts when the body lacks them).
C25_ErrorTranslation ==
    (op = "_handle_error" /\ pc = "done" /\ pages[1].json) =>
        /\ result.outcome = "raised"
        /\ result.exc = "HTTPError"
        /\ ToString(pages[1].code) \in Range(result.msg)
        /\ ActionOf(entry) \in Range(result.msg)
        /\ (IF Has(pages[1].body, "error") THEN pages[1].body.error
                                           ELSE "No error message provided.")
              \in Range(result.msg)
        /\ (IF Has(pages[1].body, "details") THEN pages[1].body.details
                                             ELSE "No additional error details provided.")
              \in Range(result.msg)

\* The operations that hand accumulated documents back to their caller.
Pollers == Monitors \cup BatchChecks \cup CrawlStatusChecks

\* How many times document d was handed to the normalizer.
TimesNormalized(d) == Cardinality({ i \in 1..Len(normalized) : normalized[i] = d })

\* C26: every document a poller returns, and every document a watcher hands
\* to its listeners in a document or done event, has been passed through
\* scrape_formats_response_transform exactly once.
C26_NormalizedOnce ==
    /\ (op \in Pollers /\ pc = "done" /\ result.outcome = "returned") =>
          \A i \in 1..Len(result.value.data) :
              TimesNormalized(result.value.data[i]) = 1
    /\ op \in WatcherOps =>
          \A i \in 1..Len(w_events) :
              /\ w_events[i].event = "document" => TimesNormalized(w_events[i].doc) = 1
              /\ w_events[i].event = "done" =>
                    \A k \in 1..Len(w_events[i].data) :
                        TimesNormalized(w_events[i].data[k]) = 1

\* The fixed safety margin of the spec, in milliseconds.
SafetyMargin == 5000

\* C27: every request the transport issues for a body that carries a
\* timeout t is made with the transport-level timeout t + 5000, and every
\* request for a body without one is made with no timeout, in _post_request
\* and in _async_request alike.
C27_ScopedTimeout ==
    op \in {"_post_request", "_async_request"} =>
        /\ Len(t_timeouts) = Len(t_log)
        /\ \A i \in 1..Len(t_timeouts) :
              t_timeouts[i] = IF "timeout" \in t_data.keys
                                THEN t_data.timeout + SafetyMargin
                                ELSE Unset

(***************************************************************************)
(* Listeners of a watcher                                                  *)
(***************************************************************************)

\* The list holds the handlers registered for its event type, each once, the
\* first registered first.
InRegistrationOrder(handlers) == \A i \in 1..Len(handlers) : handlers[i] = i

\* The step registers one new handler at the end of the list of one of the
\* three event types and leaves the other lists alone.
RegistersOne ==
    \E t \in EventTypes :
        w_handlers' = [w_handlers EXCEPT ![t] = Append(@, Len(@) + 1)]

\* The step is one dispatch_event call, recorded as the last event.
Dispatching == Len(w_events') = Len(w_events) + 1

\* C28: a watcher keeps, for each of the event types done, error and
\* document, the list of its listeners in registration order; registering
\* changes nothing else, and there is no list for another event type.  A
\* dispatch in which no listener raises invokes the listeners that are
\* registered for the event's type at that moment, each once, in
\* registration order, and no listener of another type.
C28_ListenerOrder ==
    [][op' \in WatcherOps =>
          /\ DOMAIN w_handlers' = EventTypes
          /\ \A t \in EventTypes : InRegistrationOrder(w_handlers'[t])
          /\ w_handlers' # w_handlers =>
                RegistersOne /\ UNCHANGED << pc, w_status, w_data, w_msgs, w_pending, w_events >>
          /\ (Dispatching /\ w_events'[Len(w_events')].raised = NoHandler) =>
                /\ w_events'[Len(w_events')].calls = w_handlers[w_events'[Len(w_events')].event]
                /\ UNCHANGED w_handlers]_vars

\* A document was dispatched to the one listener registered then, a second
\* listener was registered while the watcher listened, and the next document
\* went to both, the older one first; the done listeners, of which there is
\* none, were not involved.
C28_Witness ==
    /\ op \in WatcherOps
    /\ Len(w_events) = 2
    /\ w_events[1].event = "document" /\ w_events[1].calls = << 1 >>
    /\ w_events[2].event = "document" /\ w_events[2].calls = << 1, 2 >>
    /\ w_events[2].raised = NoHandler
    /\ w_handlers = [t \in EventTypes |-> IF t = "document" THEN << 1, 2 >> ELSE << >>]

\* The handlers of a list up to and including handler h.
UpTo(handlers, h) ==
    SubSeq(handlers, 1, CHOOSE i \in 1..Len(handlers) : handlers[i] = h)

\* C29: a listener that raises during a dispatch is one of the listeners of
\* the event's type; those registered before it were invoked and those
\* registered after it are not.  The session ends there: the dispatches the
\* current message still had to make (the rest of a catchup replay) are never
\* made and no later message is read, while the status and the documents the
\* current message set stay as they are.
C29_FailureNotIsolated ==
    [][op' \in WatcherOps =>
          /\ (Dispatching /\ w_events'[Len(w_events')].raised # NoHandler) =>
                /\ w_events'[Len(w_events')].calls =
                      UpTo(w_handlers[w_events'[Len(w_events')].event],
                           w_events'[Len(w_events')].raised)
                /\ pc' = "raised"
                /\ w_pending' = Tail(w_pending)
                /\ w_msgs' = w_msgs
                /\ w_status' = w_status
                /\ LastSetter # 0 => w_status' = StatusAfter("", w_msgs[LastSetter])
                /\ w_data' = DataUpTo(Len(w_msgs))
          /\ pc = "raised" => UNCHANGED vars]_vars

\* A catchup brought its documents; of the two document listeners the first
\* raised on the first document: the second listener was not invoked, the
\* later documents are still undelivered, and the watcher keeps the status
\* and the documents of the catchup.
C29_Witness ==
    /\ op \in WatcherOps
    /\ pc = "raised"
    /\ w_msgs # << >> /\ w_msgs[Len(w_msgs)].type = "catchup"
    /\ w_handlers["document"] = << 1, 2 >>
    /\ Len(w_events) = 1
    /\ w_events[1].calls = << 1 >> /\ w_events[1].raised = 1
    /\ w_events[1].doc = 1
    /\ w_data = [i \in 1..MaxCatchup |-> i]
    /\ DocsOf(w_pending) = Tail(w_data)
    /\ w_status = "scraping"

\* Sequence a is the beginning of sequence b.
IsPrefixOf(a, b) == Len(a) <= Len(b) /\ SubSeq(b, 1, Len(a)) = a

\* The step reads one message from the socket and handles it.
Reading == Len(w_msgs') = Len(w_msgs) + 1

\* C30: the documents of a watcher only grow at the end: whatever message
\* the watcher handles (done, error, catchup, document or one of a type it
\* does not know), the documents it held before are the beginning of the
\* documents it holds after, and nothing but the handling of a message
\* changes them.
C30_AppendOnly ==
    [][(op \in WatcherOps) =>
          /\ IsPrefixOf(w_data, w_data')
          /\ w_data' # w_data => Reading]_vars

\* A document, then a catchup with documents of its own, then an error: the
\* first document is still in front, the catchup's documents follow it.
C30_Witness ==
    /\ op \in WatcherOps
    /\ Len(w_msgs) = 3
    /\ w_msgs[1].type = "document"
    /\ w_msgs[2].type = "catchup" /\ w_msgs[2].hasData
    /\ w_msgs[3].type = "error"
    /\ w_data = << 1 >> \o w_msgs[2].docs
    /\ Len(w_data) = 1 + MaxCatchup

(***************************************************************************)
(* Waiting, page walks and failed queries                                  *)
(***************************************************************************)

\* C31: a crawl monitor whose status queries were all answered 200 with an
\* in-progress status is about to query again, with no result and one sleep
\* per query, however many queries it has made; it never ends on such an
\* answer, and it returns a result only when its last status query saw
\* 'completed'.
C31_NoJobTimeout ==
    op \in Monitors =>
        /\ pc = "query" => (result = NoResult /\ Len(sleeps) = queries)
        /\ Len(sleeps) = queries => (pc = "query" /\ result = NoResult)
        /\ result.outcome # "none" => (Len(sleeps) = queries - 1 /\ pages # << >>)
        /\ result.outcome = "returned" =>
              (~AsyncIsError(pages[1].code) /\ pages[1].json /\ LastStatus = "completed")

\* A monitor that has made every query the model allows and found the job in
\* progress each time is still waiting.
C31_Witness ==
    /\ op \in Monitors
    /\ queries = MaxQueries
    /\ Len(sleeps) = MaxQueries
    /\ StatusAnswered /\ LastStatus \in InProgress
    /\ pc = "query"
    /\ result = NoResult

\* Page i of the current walk is one the walk goes on from: a parsed body
\* with a next URL, that of page i + 1, and a document list that is not
\* empty.
GoesOn(i) ==
    /\ pages[i].json
    /\ Has(pages[i].body, "next") /\ pages[i].body.next = i + 1
    /\ Has(pages[i].body, "data") /\ Len(pages[i].body.data) > 0

\* The fetches of a walk so far: one per page after the first.
WalkInOrder ==
    op \in WalkOps =>
        /\ fetches = (IF pages = << >> THEN 0 ELSE Len(pages) - 1)
        /\ fetches > 0 => (StatusAnswered /\ LastStatus = "completed")
        /\ \A i \in 1..(Len(pages) - 1) : GoesOn(i)
        /\ fetches <= MaxPages - 1

\* C32: a crawl poller fetches pages only after a 'completed' answer, and
\* fetches page i + 1 only from a page i that has a next URL and a non-empty
\* document list, so the walk ends at the first page without one of them;
\* on a chain of n pages, each naming the next, that is at most n - 1
\* fetches, and a walk that has begun comes to its end.
C32_PageWalk ==
    /\ []WalkInOrder
    /\ (op \in WalkOps /\ pc = "paginate") ~> (pc = "done")

\* A poller walked the longest chain the service serves, page by page, and
\* returned.
C32_Witness ==
    /\ op \in WalkOps
    /\ fetches = MaxPages - 1
    /\ AllIntact
    /\ ~Has(pages[Len(pages)].body, "next")
    /\ result.outcome = "returned"

\* The last status query came back with a status other than 200.
QueryFailed == pages # << >> /\ pages[1].code # 200

\* C33: in every wait-to-completion loop (crawl, batch scrape, extract), a
\* status query that comes back with a status other than 200 ends the wait:
\* the poller has raised on that very answer and is done, so that it issues no
\* further status query.
C33_FailedQueryEndsWait ==
    (op \in WaitLoops /\ QueryFailed) =>
        (pc = "done" /\ result.outcome = "raised")

(***************************************************************************)
(* Two calls on one instance                                               *)
(***************************************************************************)

\* The locals f of a monitor call are what that call alone has made of the
\* answers to its own job: it slept its own interval (at least 2 seconds)
\* after each in-progress answer, its accumulated list holds the documents of
\* the pages it was sent, in order, and what it returned is that list.
OwnJobOnly(f) ==
    /\ \A i \in 1..Len(f.sleeps) : f.sleeps[i] = Max(f.arg_interval, 2)
    /\ f.poll_interval \in {f.arg_interval, Max(f.arg_interval, 2)}
    /\ Len(f.sleeps) \in {f.queries, f.queries - 1}
    /\ f.pc = "paginate" => f.data = ConcatData(f.pages)
    /\ f.result.outcome = "returned" =>
          /\ f.result.value.data = ConcatData(f.pages)
          /\ f.result.value.data = [i \in 1..Len(f.result.value.data) |-> i]
          /\ Len(f.sleeps) = f.queries - 1

\* A step of one call leaves the locals of the other call alone: either the
\* other call stays suspended as it was, or the two calls change places.
OtherCallKept ==
    \/ suspended' = suspended
    \/ suspended' = Running /\ Running' = suspended

Closed == op \in WatcherOps /\ pc \in {AfterClose(TRUE), AfterClose(FALSE)}

\* What a watcher has connected to, read, dispatched and collected.
Session == << w_conn, w_msgs, w_pending, w_events, w_data, w_status, w_handlers >>

\* C35: once the socket of a watcher has closed, by a close of the peer or by
\* a network failure, connect has returned or raised and stays so: the
\* watcher opens no connection, reads no message and dispatches no event any
\* more, and its documents and status are those it had when the socket
\* closed.
C35_NoReconnect ==
    /\ [][(op \in WatcherOps /\ pc = "listen" /\ pc' # "listen" /\ w_events' = w_events)
             => (Closed' /\ UNCHANGED Session)]_vars
    /\ [][Closed => UNCHANGED << op, pc, Session >>]_vars

\* A watcher that lost its connection after it had collected documents and
\* dispatched events.
C35_Witness ==
    /\ op \in WatcherOps
    /\ pc = AfterClose(FALSE)
    /\ Len(w_msgs) = MaxMessages
    /\ w_data # << >>
    /\ w_events # << >>
    /\ w_status = "scraping"

(***************************************************************************)
(* From the submission to the first status query                           *)
(***************************************************************************)

\* The operations that submit a job and wait for it.
SubmitAndWait == {"crawl_url", "batch_scrape_urls",
                  "AsyncFirecrawlApp.crawl_url", "AsyncFirecrawlApp.batch_scrape_urls"}

\* C36: crawl_url and batch_scrape_urls issue a status query only for an id
\* that the body of the submission response held; a body without an id leads
\* to no status query.
C36_PollOnlyWithId ==
    (entry \in SubmitAndWait /\ queries > 0) => job_id = "id"

(***************************************************************************)
(* The sync and the async monitor on the same answers                      *)
(***************************************************************************)

\* The locals of the two monitor calls.
SyncCall == IF op = "_monitor_job_status" THEN Running ELSE suspended
AsyncCall == IF op = "_monitor_job_status" THEN suspended ELSE Running

\* C37: sent the same answers, _monitor_job_status and
\* _async_monitor_job_status issue the same requests and end alike: neither
\* goes on to a further status query where the other has ended, and when both
\* have ended they have issued the same status queries and page fetches and
\* have both raised or both returned the same documents and scalar fields.
C37_MonitorsEquivalent ==
    (SyncCall.op = "_monitor_job_status" /\ AsyncCall.op = "_async_monitor_job_status") =>
        /\ (SyncCall.pc = "done" /\ AsyncCall.pc = "done") =>
              /\ SyncCall.queries = AsyncCall.queries
              /\ SyncCall.fetches = AsyncCall.fetches
              /\ SyncCall.result.outcome = AsyncCall.result.outcome
              /\ SyncCall.result.value = AsyncCall.result.value
        /\ Received(SyncCall) = Received(AsyncCall) =>
              /\ ~(SyncCall.pc = "done" /\ AsyncCall.pc = "query")
              /\ ~(AsyncCall.pc = "done" /\ SyncCall.pc = "query")

(***************************************************************************)
(* After the end of the job                                                *)
(***************************************************************************)

\* A 'done' or an 'error' message has been handled, its event included.
TerminalHandled ==
    /\ op \in WatcherOps
    /\ ReaderReady(w_pending)
    /\ \E i \in 1..Len(w_msgs) : w_msgs[i].type \in {"done", "error"}

\* C38: once a 'done' message has set the status of a watcher to 'completed'
\* or an 'error' message has set it to 'failed', no later message changes
\* the status, adds to the accumulated documents or has an event dispatched.
C38_TerminalSticky ==
    [][TerminalHandled =>
          /\ w_status' = w_status
          /\ w_data' = w_data
          /\ w_pending' = w_pending
          /\ w_events' = w_events]_vars

(***************************************************************************)
(* Messages and event types the code does not know                         *)
(***************************************************************************)

\* The message types _handle_message has a branch for.
KnownTypes == {"done", "error", "catchup", "document"}

\* The step reads a message of a type _handle_message has no branch for.
ReadsUnknown ==
    /\ op \in WatcherOps
    /\ Len(w_msgs') = Len(w_msgs) + 1
    /\ w_msgs'[Len(w_msgs')].type \notin KnownTypes

====
